---- MODULE Spec2Model ----
(***************************************************************************)
(* Model of the quiz bot: the question store (database/queries.py), the    *)
(* quiz session manager (services/quiz_manager.py) and the button / text   *)
(* handlers (handlers/callbacks.py, handlers/messages.py,                  *)
(* handlers/commands.py).                                                  *)
(*                                                                         *)
(* Conventions                                                             *)
(*  - context.user_data keys are variables indexed by user; an absent key  *)
(*    is None == <<>> and a present key with value v is Some(v) == <<v>>.  *)
(*  - REAL values of the store (accuracy, weight) are exact fractions      *)
(*    <<numerator, denominator>> in lowest terms.                          *)
(*  - a text is the sequence of its characters; the texts users type and   *)
(*    the texts stored are drawn from small sets of short texts.           *)
(*  - every handler is one atomic action: the application dispatches one   *)
(*    update at a time and the store calls are synchronous.                *)
(*  - the left-over 'weight' key of the dicts returned by the return-all   *)
(*    branch of get_random_questions is not represented; nothing reads it. *)
(***************************************************************************)
EXTENDS Integers, Sequences, FiniteSets, TLC

VARIABLES
    question_bank,     \* table question_bank: id -> row
    quiz_history,      \* table quiz_history: sequence of rows (append-only)
    users,             \* table users: user_id -> settings row
    sqlite_sequence,   \* the largest id question_bank ever assigned (AUTOINCREMENT)
    current_quiz,      \* user_data['current_quiz']
    current_question,  \* user_data['current_question']
    score,             \* user_data['score']
    current_mcq,       \* user_data['current_mcq']
    editing_question,  \* user_data['editing_question'] (+ new_* fields)
    awaiting_edit,     \* user_data['awaiting_edit']
    awaiting,          \* user_data['awaiting']
    temp_min_questions,\* user_data['temp_min_questions']
    awaiting_quiz_count,\* user_data['awaiting_quiz_count']
    upload_mode,       \* user_data['upload_mode']
    creating_custom_question, \* user_data['creating_custom_question']
    custom_question_step,     \* user_data['custom_question_step']
    custom_qn_data,           \* user_data['custom_qn_data']
    call,              \* the operation that ran last: name, arguments, result
    recorded,          \* history: per question, <<correct, incorrect>> recordings since creation / last edit
    passed,            \* history: per user, ids the session advanced past since it started
    matched,           \* history: per user, answers equal to the asked entry's correct_answer since the last session started
    txn                \* the two concurrent store connections of SpecRace

vars == <<question_bank, quiz_history, users, sqlite_sequence, current_quiz,
          current_question, score, current_mcq, editing_question, awaiting_edit,
          awaiting, temp_min_questions, awaiting_quiz_count, upload_mode,
          creating_custom_question, custom_question_step, custom_qn_data,
          call, recorded, passed, matched, txn>>

otherTables == <<quiz_history, users, sqlite_sequence>>
storeVars == <<question_bank, otherTables>>
sessionVars == <<current_quiz, current_question, score>>
otherFlows == <<editing_question, awaiting_edit, awaiting, temp_min_questions,
                upload_mode, creating_custom_question, custom_question_step,
                custom_qn_data>>
flowVars == <<otherFlows, awaiting_quiz_count>>

(***************************************************************************)
(* Bounds                                                                  *)
(***************************************************************************)
MaxBank == 3        \* ids 1..MaxBank may exist in question_bank
MaxQuizBank == 2    \* rows in the store when a session or handler behaviour starts
MaxHist == 2        \* at most MaxHist answers are recorded in a behaviour
MaxAsked == 2       \* update_question_stats is not called on a row asked this often
MaxStatRows == 2    \* rows in the store in the behaviours of SpecStats
MaxEdited == 1      \* rows edited at any moment in the behaviours of SpecEdit
MaxLines == 5       \* lines of a text given to _parse_options
MaxWords == 3       \* words of a content given to process_and_generate_questions
MaxCandidates == 2  \* candidate questions in one answer of the generator

Ids == 1..MaxBank
Users == {1}                 \* the users whose handlers run
Owners == {1, 2}             \* owners a stored row may have
Labels == {"A", "B"}         \* the answer labels pressed (of A..D)

(***************************************************************************)
(* Optional values                                                         *)
(***************************************************************************)
None == <<>>
Some(v) == <<v>>
Get(o, default) == IF o = None THEN default ELSE o[1]

Range(s) == {s[i] : i \in 1..Len(s)}

(***************************************************************************)
(* Fractions                                                               *)
(***************************************************************************)
RECURSIVE Gcd(_, _)
Gcd(a, b) == IF b = 0 THEN a ELSE Gcd(b, a % b)

Frac(n, d) == LET g == Gcd(n, d) IN <<n \div g, d \div g>>
Zero == Frac(0, 1)

(***************************************************************************)
(* Texts (str): sequences of one-character strings                         *)
(***************************************************************************)
Whitespace == {" ", "\n"}

RECURSIVE LStrip(_)
LStrip(t) == IF t # <<>> /\ Head(t) \in Whitespace THEN LStrip(Tail(t)) ELSE t

RECURSIVE RStrip(_)
RStrip(t) ==
    IF t # <<>> /\ t[Len(t)] \in Whitespace
    THEN RStrip(SubSeq(t, 1, Len(t) - 1)) ELSE t

\* str.strip()
Strip(t) == RStrip(LStrip(t))

\* The maximal runs of characters of t that are not in seps, in order.
RECURSIVE Fields(_, _)
Fields(t, seps) ==
    IF t = <<>> THEN <<>>
    ELSE IF Head(t) \in seps THEN Fields(Tail(t), seps)
    ELSE LET stops == {i \in 1..Len(t) : t[i] \in seps}
             n == IF stops = {} THEN Len(t) + 1
                  ELSE CHOOSE i \in stops : \A j \in stops : i <= j
         IN  <<SubSeq(t, 1, n - 1)>> \o Fields(SubSeq(t, n, Len(t)), seps)

\* str.split()
Words(t) == Fields(t, Whitespace)

\* ' '.join(words)
RECURSIVE Join(_)
Join(words) ==
    IF words = <<>> THEN <<>>
    ELSE IF Len(words) = 1 THEN words[1]
    ELSE words[1] \o <<" ">> \o Join(Tail(words))

\* [l.strip() for l in text.strip().splitlines() if l.strip()]
RECURSIVE StripAll(_)
StripAll(ls) ==
    IF ls = <<>> THEN <<>>
    ELSE IF Strip(Head(ls)) = <<>> THEN StripAll(Tail(ls))
    ELSE <<Strip(Head(ls))>> \o StripAll(Tail(ls))

Lines(text) == StripAll(Fields(Strip(text), {"\n"}))

Digits == <<"0", "1", "2", "3", "4", "5", "6", "7", "8", "9">>
IsDigit(ch) == \E d \in 1..10 : Digits[d] = ch
DigitValue(ch) == (CHOOSE d \in 1..10 : Digits[d] = ch) - 1

RECURSIVE Decimal(_)
Decimal(t) ==
    IF t = <<>> THEN 0
    ELSE 10 * Decimal(SubSeq(t, 1, Len(t) - 1)) + DigitValue(t[Len(t)])

\* int(text): Some(value), or None where int raises ValueError.  (The texts
\* drawn hold no '_' and no non-ASCII digit.)
ParseInt(text) ==
    LET s == Strip(text)
        signed == s # <<>> /\ s[1] \in {"+", "-"}
        body == IF signed THEN Tail(s) ELSE s
    IN  IF body # <<>> /\ \A i \in 1..Len(body) : IsDigit(body[i])
        THEN Some(IF signed /\ s[1] = "-" THEN 0 - Decimal(body) ELSE Decimal(body))
        ELSE None

(***************************************************************************)
(* Option lines (MessageHandlers._parse_options)                           *)
(***************************************************************************)
OptionLabels == <<"A", "B", "C", "D">>

\* str.upper() on the characters a label may be
Upper(ch) ==
    CASE ch = "a" -> "A" [] ch = "b" -> "B" [] ch = "c" -> "C"
      [] ch = "d" -> "D" [] OTHER -> ch

\* The match without backtracking: a separator that nothing follows is not
\* given back to (.+).
MatchOption_NoGiveBack(line) ==
    IF line = <<>> \/ Upper(line[1]) \notin Range(OptionLabels) THEN None
    ELSE LET a == LStrip(Tail(line))
             b == IF a # <<>> /\ a[1] \in {")", "-", ".", ":"} THEN Tail(a) ELSE a
             d == LStrip(b)
         IN  IF d = <<>> THEN None
             ELSE Some([label |-> Upper(line[1]), text |-> Strip(d)])

\* re.match(r"^\s*([A-Da-d])\s*[)\-\.:]?\s*(.+)$", line) on a stripped line:
\* Some(label, text) or None.  The separator is taken when present, except
\* that it is given back to (.+) when nothing follows it.
MatchOption(line) ==
    IF line = <<>> \/ Upper(line[1]) \notin Range(OptionLabels) THEN None
    ELSE LET a == LStrip(Tail(line))
             b == IF a # <<>> /\ a[1] \in {")", "-", ".", ":"} THEN Tail(a) ELSE a
             d == LStrip(b)
         IN  IF a = <<>> THEN None
             ELSE Some([label |-> Upper(line[1]),
                        text |-> Strip(IF d = <<>> THEN a ELSE d)])

\* _parse_options: Some(options_list) or None where it raises ValueError.
ParseOptions(text) ==
    LET lines == Lines(text)
        m == [i \in 1..Len(lines) |-> MatchOption(lines[i])]
    IN  IF Len(lines) # 4 THEN None
        ELSE IF \E i \in 1..4 : m[i] = None THEN None
        ELSE IF \E i, j \in 1..4 : i < j /\ m[i][1].label = m[j][1].label THEN None
        ELSE IF \E i \in 1..4 : m[i][1].text = <<>> THEN None
        ELSE IF {m[i][1].label : i \in 1..4} # Range(OptionLabels) THEN None
        ELSE Some([k \in 1..4 |->
                     LET i == CHOOSE j \in 1..4 : m[j][1].label = OptionLabels[k]
                     IN  <<OptionLabels[k], ")", " ">> \o m[i][1].text])

(***************************************************************************)
(* Question store (database/queries.py)                                    *)
(***************************************************************************)
\* A freshly inserted row of question_bank (save_question, models.py defaults).
NewRow(u, question, options, correct_answer, explanation, source) ==
    [user_id |-> u, question |-> question, options |-> options,
     correct_answer |-> correct_answer, explanation |-> explanation,
     source |-> source, times_asked |-> 0, times_correct |-> 0,
     accuracy |-> Zero]

\* The ids of a set in ascending order (rows are scanned in rowid order).
RECURSIVE Ascending(_)
Ascending(S) ==
    IF S = {} THEN <<>>
    ELSE LET m == CHOOSE x \in S : \A y \in S : x <= y
         IN <<m>> \o Ascending(S \ {m})

\* SELECT ... FROM question_bank WHERE user_id = ?
UserRowIds(bank, u) == Ascending({i \in DOMAIN bank : bank[i].user_id = u})

\* get_question_count
GetQuestionCount(bank, u) == Len(UserRowIds(bank, u))

\* The dict get_random_questions builds for a row (after the weight is popped).
Entry(bank, i) ==
    [id |-> i, question |-> bank[i].question, options |-> bank[i].options,
     correct_answer |-> bank[i].correct_answer,
     explanation |-> bank[i].explanation, source |-> bank[i].source]

\* The weight rising with the accuracy: 0.6, or accuracy + 0.2.
Weight_Rising(row) ==
    IF row.times_asked = 0 THEN Frac(3, 5)
    ELSE Frac(5 * row.accuracy[1] + row.accuracy[2], 5 * row.accuracy[2])

\* The selection weight of a row: 0.6, or 1.0 - accuracy + 0.2.
Weight(row) ==
    IF row.times_asked = 0 THEN Frac(3, 5)
    ELSE Frac(6 * row.accuracy[2] - 5 * row.accuracy[1], 5 * row.accuracy[2])

\* random.choices(population, weights, k): every draw is independent, so an
\* index may be drawn again; an index of weight 0 is never drawn.
Choices(n, weights, k) ==
    {c \in [1..k -> 1..n] : \A j \in 1..k : weights[c[j]][1] > 0}

\* get_random_questions with the comparison of line 179 weakened (mutant).
GetRandomQuestions_Lt(bank, u, num_questions) ==
    LET all == UserRowIds(bank, u)
        qs == [j \in 1..Len(all) |-> Entry(bank, all[j])]
        ws == [j \in 1..Len(all) |-> Weight(bank[all[j]])]
    IN  IF all = <<>> THEN {<<>>}
        ELSE IF Len(qs) < num_questions THEN {qs}
        ELSE LET k == IF num_questions < Len(qs) THEN num_questions ELSE Len(qs)
             IN {[j \in 1..k |-> qs[c[j]]] : c \in Choices(Len(qs), ws, k)}

\* get_random_questions: the set of lists the call may return.
GetRandomQuestions(bank, u, num_questions) ==
    LET all == UserRowIds(bank, u)
        qs == [j \in 1..Len(all) |-> Entry(bank, all[j])]
        ws == [j \in 1..Len(all) |-> Weight(bank[all[j]])]
    IN  IF all = <<>> THEN {<<>>}
        ELSE IF Len(qs) <= num_questions THEN {qs}
        ELSE LET k == IF num_questions < Len(qs) THEN num_questions ELSE Len(qs)
             IN {[j \in 1..k |-> qs[c[j]]] : c \in Choices(Len(qs), ws, k)}

\* update_question_stats with the new accuracy taken from the old counter (mutant).
UpdateQuestionStats_Stale(bank, question_id, is_correct) ==
    IF question_id \notin DOMAIN bank THEN bank
    ELSE LET r == bank[question_id]
         IN IF is_correct
            THEN [bank EXCEPT ![question_id] =
                    [r EXCEPT !.times_asked = r.times_asked + 1,
                              !.times_correct = r.times_correct + 1,
                              !.accuracy = Frac(r.times_correct, r.times_asked + 1)]]
            ELSE [bank EXCEPT ![question_id] =
                    [r EXCEPT !.times_asked = r.times_asked + 1,
                              !.accuracy = Frac(r.times_correct, r.times_asked + 1)]]

\* update_question_stats: one UPDATE statement; its right-hand sides read the
\* row as it was before the statement.
UpdateQuestionStats(bank, question_id, is_correct) ==
    IF question_id \notin DOMAIN bank THEN bank
    ELSE LET r == bank[question_id]
         IN IF is_correct
            THEN [bank EXCEPT ![question_id] =
                    [r EXCEPT !.times_asked = r.times_asked + 1,
                              !.times_correct = r.times_correct + 1,
                              !.accuracy = Frac(r.times_correct + 1, r.times_asked + 1)]]
            ELSE [bank EXCEPT ![question_id] =
                    [r EXCEPT !.times_asked = r.times_asked + 1,
                              !.accuracy = Frac(r.times_correct, r.times_asked + 1)]]

\* save_quiz_result
SaveQuizResult(hist, u, question_id, user_answer, is_correct) ==
    Append(hist, [user_id |-> u, question_id |-> question_id,
                  user_answer |-> user_answer, is_correct |-> is_correct])

\* The fields an edit supplies: each None or Some(new value).
NoFields == [question |-> None, options |-> None, correct_answer |-> None,
             explanation |-> None]

Patch(r, f) ==
    [r EXCEPT !.question = Get(f.question, @),
              !.options = Get(f.options, @),
              !.correct_answer = Get(f.correct_answer, @),
              !.explanation = Get(f.explanation, @)]

\* update_question resetting the counters only when a field is supplied (mutant).
UpdateQuestion_NoReset(bank, question_id, u, f) ==
    IF ~(question_id \in DOMAIN bank /\ bank[question_id].user_id = u)
    THEN [ok |-> FALSE, bank |-> bank]
    ELSE [ok |-> TRUE,
          bank |-> [bank EXCEPT ![question_id] =
                      IF f = NoFields THEN @
                      ELSE [Patch(@, f) EXCEPT !.accuracy = Zero,
                                               !.times_asked = 0,
                                               !.times_correct = 0]]]

\* update_question: ownership check, then one UPDATE of the supplied fields
\* and of accuracy, times_asked, times_correct.
UpdateQuestion(bank, question_id, u, f) ==
    IF ~(question_id \in DOMAIN bank /\ bank[question_id].user_id = u)
    THEN [ok |-> FALSE, bank |-> bank]
    ELSE [ok |-> TRUE,
          bank |-> [bank EXCEPT ![question_id] =
                      [Patch(@, f) EXCEPT !.accuracy = Zero,
                                          !.times_asked = 0,
                                          !.times_correct = 0]]]

\* delete_question without the ownership check: whatever row has the id is
\* deleted and the call reports success.
DeleteQuestion_Unchecked(bank, question_id, u) ==
    [ok |-> TRUE,
     bank |-> [i \in DOMAIN bank \ {question_id} |-> bank[i]]]

\* delete_question
DeleteQuestion(bank, question_id, u) ==
    IF ~(question_id \in DOMAIN bank /\ bank[question_id].user_id = u)
    THEN [ok |-> FALSE, bank |-> bank]
    ELSE [ok |-> TRUE,
          bank |-> [i \in DOMAIN bank \ {question_id} |-> bank[i]]]

\* clear_user_questions without the WHERE clause: every row is deleted.
ClearUserQuestions_All(bank, u) == [i \in {} |-> bank[i]]

\* clear_user_questions
ClearUserQuestions(bank, u) ==
    [i \in {j \in DOMAIN bank : bank[j].user_id # u} |-> bank[i]]

\* clean_text of save_question
CleanText(t) == Join(Words(t))

\* save_question: the cleaned texts are inserted under the next id.
SaveQuestion(bank, seq, u, question, options, correct_answer, explanation, source) ==
    [bank |-> [i \in DOMAIN bank \cup {seq + 1} |->
                 IF i = seq + 1
                 THEN NewRow(u, CleanText(question),
                             [k \in 1..Len(options) |-> CleanText(options[k])],
                             correct_answer, CleanText(explanation),
                             CleanText(source))
                 ELSE bank[i]],
     seq |-> seq + 1]

\* config.py
DEFAULT_QUESTIONS_PER_CHUNK == 3
MAX_QUESTIONS_PER_CHUNK == 5
CHUNK_SIZE_WORDS == 1000
DEFAULT_DAILY_QUESTIONS == 5
DEFAULT_QUIZ_TIME == <<"0", "9", ":", "0", "0">>
MIN_DAILY_QUESTIONS == 1
MAX_DAILY_QUESTIONS == 20

\* A row of table users as INSERT OR IGNORE (user_id, username) creates it
\* (column defaults of models.py; the timezone column is read by nothing).
NewUser(username) ==
    [username |-> username, daily_questions |-> 5,
     quiz_time |-> <<"0", "9", ":", "0", "0">>,
     min_questions_per_chunk |-> 3, max_questions_per_chunk |-> 5]

\* The optional arguments of save_user_settings: each None or Some(value).
NoSettings == [daily_questions |-> None, quiz_time |-> None,
               min_questions |-> None, max_questions |-> None]

\* save_user_settings leaving min_questions_per_chunk as it is
SaveUserSettings_MaxOnly(tbl, u, username, f) ==
    [x \in DOMAIN tbl \cup {u} |->
        LET r == IF x \in DOMAIN tbl THEN tbl[x] ELSE NewUser(username)
        IN  IF x # u THEN r
            ELSE [r EXCEPT !.daily_questions = Get(f.daily_questions, @),
                           !.quiz_time = Get(f.quiz_time, @),
                           !.max_questions_per_chunk = Get(f.max_questions, @)]]

\* save_user_settings
SaveUserSettings(tbl, u, username, f) ==
    [x \in DOMAIN tbl \cup {u} |->
        LET r == IF x \in DOMAIN tbl THEN tbl[x] ELSE NewUser(username)
        IN  IF x # u THEN r
            ELSE [r EXCEPT !.daily_questions = Get(f.daily_questions, @),
                           !.quiz_time = Get(f.quiz_time, @),
                           !.min_questions_per_chunk = Get(f.min_questions, @),
                           !.max_questions_per_chunk = Get(f.max_questions, @)]]

\* get_user_settings (the columns hold no NULL: nothing stores one)
GetUserSettings(tbl, u) ==
    IF u \in DOMAIN tbl
    THEN [daily_questions |-> tbl[u].daily_questions,
          quiz_time |-> tbl[u].quiz_time,
          min_questions_per_chunk |-> tbl[u].min_questions_per_chunk,
          max_questions_per_chunk |-> tbl[u].max_questions_per_chunk]
    ELSE [daily_questions |-> DEFAULT_DAILY_QUESTIONS,
          quiz_time |-> DEFAULT_QUIZ_TIME,
          min_questions_per_chunk |-> DEFAULT_QUESTIONS_PER_CHUNK,
          max_questions_per_chunk |-> MAX_QUESTIONS_PER_CHUNK]

\* chunk_text stepping one word short of chunk_size, so that each chunk
\* starts with the last word of the chunk before it
RECURSIVE ChunkWords_Overlap(_, _)
ChunkWords_Overlap(words, chunk_size) ==
    IF words = <<>> THEN <<>>
    ELSE IF Len(words) <= chunk_size THEN <<Join(words)>>
    ELSE <<Join(SubSeq(words, 1, chunk_size))>>
         \o ChunkWords_Overlap(SubSeq(words, IF chunk_size > 1 THEN chunk_size
                                                ELSE 2, Len(words)), chunk_size)

\* chunk_text: the words of text in consecutive chunks of chunk_size words.
RECURSIVE ChunkWords(_, _)
ChunkWords(words, chunk_size) ==
    IF words = <<>> THEN <<>>
    ELSE IF Len(words) <= chunk_size THEN <<Join(words)>>
    ELSE <<Join(SubSeq(words, 1, chunk_size))>>
         \o ChunkWords(SubSeq(words, chunk_size + 1, Len(words)), chunk_size)

ChunkText(text, chunk_size) == ChunkWords(Words(text), chunk_size)

(***************************************************************************)
(* Quiz session manager (services/quiz_manager.py).  q, i, sc are the      *)
(* optional values of current_quiz, current_question and score.            *)
(***************************************************************************)
\* start_quiz with the upper bound of line 23 made exclusive (mutant).
StartQuiz_Ge(bank, u, num_questions) ==
    LET question_count == GetQuestionCount(bank, u)
    IN  IF question_count = 0
        THEN {[success |-> FALSE, mcqs |-> <<>>, message |-> "EMPTY_BANK_ERROR"]}
        ELSE IF num_questions < 1 \/ num_questions >= question_count
        THEN {[success |-> FALSE, mcqs |-> <<>>, message |-> "INVALID_QUIZ_COUNT"]}
        ELSE {IF mcqs = <<>>
              THEN [success |-> FALSE, mcqs |-> <<>>, message |-> "QUIZ_LOAD_ERROR"]
              ELSE [success |-> TRUE, mcqs |-> mcqs, message |-> "QUIZ_START"]
              : mcqs \in GetRandomQuestions(bank, u, num_questions)}

\* start_quiz: the set of (success, mcqs, message) results the call may have;
\* on success the caller's session becomes (mcqs, 0, 0).
StartQuiz(bank, u, num_questions) ==
    LET question_count == GetQuestionCount(bank, u)
    IN  IF question_count = 0
        THEN {[success |-> FALSE, mcqs |-> <<>>, message |-> "EMPTY_BANK_ERROR"]}
        ELSE IF num_questions < 1 \/ num_questions > question_count
        THEN {[success |-> FALSE, mcqs |-> <<>>, message |-> "INVALID_QUIZ_COUNT"]}
        ELSE {IF mcqs = <<>>
              THEN [success |-> FALSE, mcqs |-> <<>>, message |-> "QUIZ_LOAD_ERROR"]
              ELSE [success |-> TRUE, mcqs |-> mcqs, message |-> "QUIZ_START"]
              : mcqs \in GetRandomQuestions(bank, u, num_questions)}

\* get_current_question
GetCurrentQuestion(q, i) ==
    LET quiz == Get(q, <<>>)
        question_num == Get(i, 0)
    IN  IF question_num < Len(quiz) THEN Some(quiz[question_num + 1]) ELSE None

\* is_quiz_complete with a strict comparison (mutant).
IsQuizComplete_Gt(q, i) == Get(i, 0) > Len(Get(q, <<>>))

\* is_quiz_complete
IsQuizComplete(q, i) == Get(i, 0) >= Len(Get(q, <<>>))

\* next_question stepping back
NextQuestion_Back(i) == Some(Get(i, 0) - 1)

\* next_question
NextQuestion(i) == Some(Get(i, 0) + 1)

\* process_answer counting every answer as a point (mutant).
ProcessAnswer_AlwaysScore(bank, hist, q, i, sc, u, user_answer) ==
    LET mcq == GetCurrentQuestion(q, i)
    IN  IF mcq = None
        THEN [ret |-> None, bank |-> bank, hist |-> hist, score |-> sc]
        ELSE LET m == mcq[1]
                 is_correct == (user_answer = m.correct_answer)
             IN [ret |-> Some([is_correct |-> is_correct,
                               correct_answer |-> m.correct_answer,
                               explanation |-> m.explanation]),
                 hist |-> SaveQuizResult(hist, u, m.id, user_answer, is_correct),
                 bank |-> UpdateQuestionStats(bank, m.id, is_correct),
                 score |-> Some(Get(sc, 0) + 1)]

\* process_answer: the result, and the store and score it leaves.
ProcessAnswer(bank, hist, q, i, sc, u, user_answer) ==
    LET mcq == GetCurrentQuestion(q, i)
    IN  IF mcq = None
        THEN [ret |-> None, bank |-> bank, hist |-> hist, score |-> sc]
        ELSE LET m == mcq[1]
                 is_correct == (user_answer = m.correct_answer)
             IN [ret |-> Some([is_correct |-> is_correct,
                               correct_answer |-> m.correct_answer,
                               explanation |-> m.explanation]),
                 hist |-> SaveQuizResult(hist, u, m.id, user_answer, is_correct),
                 bank |-> UpdateQuestionStats(bank, m.id, is_correct),
                 score |-> IF is_correct THEN Some(Get(sc, 0) + 1) ELSE sc]

(***************************************************************************)
(* History variables                                                       *)
(***************************************************************************)
\* recorded after update_question_stats ran for question_id.
Recorded(rec, bank, question_id, is_correct) ==
    IF question_id \notin DOMAIN bank THEN rec
    ELSE [rec EXCEPT ![question_id] =
            IF is_correct THEN <<@[1] + 1, @[2]>> ELSE <<@[1], @[2] + 1>>]

Call(op, args, pre, ret) == [op |-> op, args |-> args, pre |-> pre, ret |-> ret]

(***************************************************************************)
(* Initial states                                                          *)
(***************************************************************************)
\* The texts of the questions the store holds as the process starts, and the
\* texts an edit may supply.
Question0 == <<"q">>
Explanation0 == <<"e">>
Source0 == <<"s">>
Options0 == << <<"A", ")", " ", "w">>, <<"B", ")", " ", "x">>,
               <<"C", ")", " ", "y">>, <<"D", ")", " ", "z">> >>
Question1 == <<"r">>
Explanation1 == <<"f">>
Options1 == << <<"A", ")", " ", "z">>, <<"B", ")", " ", "y">>,
               <<"C", ")", " ", "x">>, <<"D", ")", " ", "w">> >>

\* A stored row with the counters (asked, correct) and the accuracy they give.
RowWith(owner, asked, correct) ==
    [NewRow(owner, Question0, Options0, "A", Explanation0, Source0) EXCEPT
        !.times_asked = asked, !.times_correct = correct,
        !.accuracy = IF asked = 0 THEN Zero ELSE Frac(correct, asked)]

FreshRows == {RowWith(o, 0, 0) : o \in Owners}
\* Rows of user 1 never asked, asked once (wrong, right) and asked twice (one right).
AskedRows == {RowWith(1, 0, 0), RowWith(1, 1, 0), RowWith(1, 1, 1), RowWith(1, 2, 1)}

BanksOf(ids, rows) == UNION {[D -> rows] : D \in SUBSET ids}

NoUsers == [u \in {} |-> 0]

\* Everything but the question bank, as the process starts: empty user_data.
\* The store may hold rows of an earlier run of the process.
InitUserData ==
    /\ current_quiz = [u \in Users |-> None]
    /\ current_question = [u \in Users |-> None]
    /\ score = [u \in Users |-> None]
    /\ current_mcq = [u \in Users |-> None]
    /\ editing_question = [u \in Users |-> None]
    /\ awaiting_edit = [u \in Users |-> None]
    /\ awaiting = [u \in Users |-> None]
    /\ temp_min_questions = [u \in Users |-> None]
    /\ awaiting_quiz_count = [u \in Users |-> None]
    /\ upload_mode = [u \in Users |-> None]
    /\ creating_custom_question = [u \in Users |-> None]
    /\ custom_question_step = [u \in Users |-> None]
    /\ custom_qn_data = [u \in Users |-> None]
    /\ call = Call("init", <<>>, <<>>, <<>>)
    /\ passed = [u \in Users |-> <<>>]
    /\ matched = [u \in Users |-> 0]

InitRest ==
    /\ quiz_history = <<>>
    /\ users = NoUsers
    /\ sqlite_sequence = MaxBank
    /\ InitUserData
    /\ txn = <<>>

RecordedOf(bank) ==
    [i \in Ids |-> IF i \in DOMAIN bank
                   THEN <<bank[i].times_correct,
                          bank[i].times_asked - bank[i].times_correct>>
                   ELSE <<0, 0>>]

(***************************************************************************)
(* SpecSelector: the weighted selector called on any bank                  *)
(***************************************************************************)
ApiGetRandomQuestions(u, k) ==
    /\ \E r \in GetRandomQuestions(question_bank, u, k) :
          call' = Call("get_random_questions", <<u, k>>, <<>>, r)
    /\ UNCHANGED <<storeVars, sessionVars, flowVars, current_mcq, recorded,
                   passed, matched, txn>>

InitSelector ==
    /\ question_bank \in BanksOf(Ids, AskedRows \cup {RowWith(2, 0, 0)})
    /\ recorded = RecordedOf(question_bank)
    /\ InitRest

NextSelector == \E u \in Users, k \in 0..(MaxBank + 1) : ApiGetRandomQuestions(u, k)

SpecSelector == InitSelector /\ [][NextSelector]_vars

(***************************************************************************)
(* SpecSession: the operations of QuizManager called in any order          *)
(***************************************************************************)
\* start_quiz keeping what an unfinished session holds: the drawn questions
\* are appended to its snapshot and its index and score stay.
ApiStartQuiz_Merge(u, k) ==
    /\ \E r \in StartQuiz(question_bank, u, k) :
          /\ call' = Call("start_quiz", <<u, k>>,
                          <<GetQuestionCount(question_bank, u), current_quiz[u],
                            current_question[u], score[u]>>, r)
          /\ IF r.success
             THEN /\ current_quiz' = [current_quiz EXCEPT ![u] =
                                         Some(Get(@, <<>>) \o r.mcqs)]
                  /\ current_question' = [current_question EXCEPT ![u] =
                                             Some(Get(@, 0))]
                  /\ score' = [score EXCEPT ![u] = Some(Get(@, 0))]
                  /\ passed' = [passed EXCEPT ![u] = <<>>]
                  /\ matched' = [matched EXCEPT ![u] = 0]
             ELSE UNCHANGED <<sessionVars, passed, matched>>
    /\ UNCHANGED <<storeVars, flowVars, current_mcq, recorded, txn>>

\* start_quiz discarding the session it finds when it fails
ApiStartQuiz_Discard(u, k) ==
    /\ \E r \in StartQuiz(question_bank, u, k) :
          /\ call' = Call("start_quiz", <<u, k>>,
                          <<GetQuestionCount(question_bank, u), current_quiz[u],
                            current_question[u], score[u]>>, r)
          /\ IF r.success
             THEN /\ current_quiz' = [current_quiz EXCEPT ![u] = Some(r.mcqs)]
                  /\ current_question' = [current_question EXCEPT ![u] = Some(0)]
                  /\ score' = [score EXCEPT ![u] = Some(0)]
                  /\ passed' = [passed EXCEPT ![u] = <<>>]
                  /\ matched' = [matched EXCEPT ![u] = 0]
             ELSE /\ current_quiz' = [current_quiz EXCEPT ![u] = None]
                  /\ current_question' = [current_question EXCEPT ![u] = None]
                  /\ score' = [score EXCEPT ![u] = None]
                  /\ UNCHANGED <<passed, matched>>
    /\ UNCHANGED <<storeVars, flowVars, current_mcq, recorded, txn>>

\* start_quiz for user u with k questions; pre holds the bank size and the
\* session (snapshot, index, score) the call found.
ApiStartQuiz(u, k) ==
    /\ \E r \in StartQuiz(question_bank, u, k) :
          /\ call' = Call("start_quiz", <<u, k>>,
                          <<GetQuestionCount(question_bank, u), current_quiz[u],
                            current_question[u], score[u]>>, r)
          /\ IF r.success
             THEN /\ current_quiz' = [current_quiz EXCEPT ![u] = Some(r.mcqs)]
                  /\ current_question' = [current_question EXCEPT ![u] = Some(0)]
                  /\ score' = [score EXCEPT ![u] = Some(0)]
                  /\ passed' = [passed EXCEPT ![u] = <<>>]
                  /\ matched' = [matched EXCEPT ![u] = 0]
             ELSE UNCHANGED <<sessionVars, passed, matched>>
    /\ UNCHANGED <<storeVars, flowVars, current_mcq, recorded, txn>>

ApiProcessAnswer(u, user_answer) ==
    LET r == ProcessAnswer(question_bank, quiz_history, current_quiz[u],
                           current_question[u], score[u], u, user_answer)
    IN  /\ r.ret # None => Len(quiz_history) < MaxHist
        /\ question_bank' = r.bank
        /\ quiz_history' = r.hist
        /\ score' = [score EXCEPT ![u] = r.score]
        /\ recorded' = IF r.ret = None THEN recorded
                       ELSE Recorded(recorded, question_bank,
                                     GetCurrentQuestion(current_quiz[u],
                                                        current_question[u])[1].id,
                                     r.ret[1].is_correct)
        /\ matched' = IF r.ret # None
                         /\ user_answer = GetCurrentQuestion(current_quiz[u],
                                              current_question[u])[1].correct_answer
                      THEN [matched EXCEPT ![u] = @ + 1] ELSE matched
        /\ call' = Call("process_answer", <<u, user_answer>>, <<>>, r.ret)
        /\ UNCHANGED <<users, sqlite_sequence, current_quiz, current_question,
                       flowVars, current_mcq, passed, txn>>

ApiNextQuestion(u) ==
    /\ Get(current_question[u], 0) <= Len(Get(current_quiz[u], <<>>))
    /\ current_question' = [current_question EXCEPT ![u] = NextQuestion(@)]
    /\ passed' = [passed EXCEPT ![u] =
                    Append(@, LET m == GetCurrentQuestion(current_quiz[u],
                                                          current_question[u])
                              IN IF m = None THEN 0 ELSE m[1].id)]
    /\ call' = Call("next_question", <<u>>, <<>>, <<>>)
    /\ UNCHANGED <<storeVars, current_quiz, score, flowVars, current_mcq,
                   recorded, matched, txn>>

ApiEndQuiz(u) ==
    /\ current_quiz' = [current_quiz EXCEPT ![u] = None]
    /\ current_question' = [current_question EXCEPT ![u] = None]
    /\ score' = [score EXCEPT ![u] = None]
    /\ awaiting_quiz_count' = [awaiting_quiz_count EXCEPT ![u] = None]
    /\ passed' = [passed EXCEPT ![u] = <<>>]
    /\ call' = Call("end_quiz", <<u>>, <<>>, <<>>)
    /\ UNCHANGED <<storeVars, current_mcq, otherFlows, recorded, matched, txn>>

InitSession ==
    /\ question_bank \in BanksOf(1..MaxQuizBank, FreshRows)
    /\ recorded = RecordedOf(question_bank)
    /\ InitRest

NextSession ==
    \E u \in Users :
        \/ \E k \in 0..(MaxQuizBank + 1) : ApiStartQuiz(u, k)
        \/ \E a \in Labels : ApiProcessAnswer(u, a)
        \/ ApiNextQuestion(u)
        \/ ApiEndQuiz(u)

SpecSession == InitSession /\ [][NextSession]_vars

(***************************************************************************)
(* SpecStats: the store's counter and edit operations called in any order  *)
(***************************************************************************)
\* The edits tried: no field, the question text only, all four fields.
EditInputs ==
    {NoFields,
     [NoFields EXCEPT !.question = Some(Question1)],
     [question |-> Some(Question1), options |-> Some(Options1),
      correct_answer |-> Some("B"), explanation |-> Some(Explanation1)]}

ApiUpdateQuestionStats(question_id, is_correct) ==
    /\ question_id \in DOMAIN question_bank =>
          question_bank[question_id].times_asked < MaxAsked
    /\ question_bank' = UpdateQuestionStats(question_bank, question_id, is_correct)
    /\ recorded' = Recorded(recorded, question_bank, question_id, is_correct)
    /\ call' = Call("update_question_stats", <<question_id, is_correct>>, <<>>, <<>>)
    /\ UNCHANGED <<otherTables, sessionVars, flowVars, current_mcq,
                   passed, matched, txn>>

ApiUpdateQuestion(u, question_id, f) ==
    LET r == UpdateQuestion(question_bank, question_id, u, f)
    IN  /\ question_bank' = r.bank
        /\ recorded' = IF r.ok THEN [recorded EXCEPT ![question_id] = <<0, 0>>]
                       ELSE recorded
        /\ call' = Call("update_question", <<question_id, u, f>>,
                        IF question_id \in DOMAIN question_bank
                        THEN <<question_bank[question_id].times_asked>> ELSE <<>>,
                        r.ok)
        /\ UNCHANGED <<otherTables, sessionVars, flowVars, current_mcq,
                       passed, matched, txn>>

ApiDeleteQuestion(u, question_id) ==
    LET r == DeleteQuestion(question_bank, question_id, u)
    IN  /\ question_bank' = r.bank
        /\ recorded' = IF r.ok THEN [recorded EXCEPT ![question_id] = <<0, 0>>]
                       ELSE recorded
        /\ call' = Call("delete_question", <<question_id, u>>, <<>>, r.ok)
        /\ UNCHANGED <<otherTables, sessionVars, flowVars, current_mcq,
                       passed, matched, txn>>

InitStats ==
    /\ question_bank \in BanksOf(1..MaxStatRows, FreshRows)
    /\ recorded = RecordedOf(question_bank)
    /\ InitRest

NextStats ==
    \E question_id \in 1..MaxStatRows :
        \/ \E is_correct \in BOOLEAN : ApiUpdateQuestionStats(question_id, is_correct)
        \/ \E u \in Users, f \in EditInputs : ApiUpdateQuestion(u, question_id, f)
        \/ \E u \in Users : ApiDeleteQuestion(u, question_id)

SpecStats == InitStats /\ [][NextStats]_vars

(***************************************************************************)
(* SpecRace: two update_question_stats calls on question 1, each on its    *)
(* own connection, their steps (connect, execute, commit, close)           *)
(* interleaved.  An UPDATE takes the database's write lock until commit;   *)
(* a second writer waits for it.                                           *)
(***************************************************************************)
Procs == {1, 2}

\* The call of p has connected and not yet closed.
RaceOpen(p) == txn.pc[p] \in {"execute", "commit", "close"}

\* update_question_stats reading the counters when the call begins and writing
\* back the sums, instead of incrementing inside the UPDATE (mutant).
RaceExecute_StaleRead(p) ==
    /\ txn.pc[p] = "execute"
    /\ txn.lock = 0
    /\ txn' = [txn EXCEPT !.pc[p] = "commit", !.lock = p,
                          !.overlapped = @ \/ RaceOpen(3 - p),
                          !.pending[p] = UpdateQuestionStats(
                                            [question_bank EXCEPT ![1] = txn.before],
                                            1, txn.is_correct[p])]
    /\ UNCHANGED <<storeVars, sessionVars, flowVars, current_mcq, call,
                   recorded, passed, matched>>

\* _get_connection
RaceConnect(p) ==
    /\ txn.pc[p] = "connect"
    /\ txn' = [txn EXCEPT !.pc[p] = "execute"]
    /\ UNCHANGED <<storeVars, sessionVars, flowVars, current_mcq, call,
                   recorded, passed, matched>>

\* c.execute(UPDATE ...): reads and rewrites the row under the write lock.
RaceExecute(p) ==
    /\ txn.pc[p] = "execute"
    /\ txn.lock = 0
    /\ txn' = [txn EXCEPT !.pc[p] = "commit", !.lock = p,
                          !.overlapped = @ \/ RaceOpen(3 - p),
                          !.pending[p] = UpdateQuestionStats(question_bank, 1,
                                                             txn.is_correct[p])]
    /\ UNCHANGED <<storeVars, sessionVars, flowVars, current_mcq, call,
                   recorded, passed, matched>>

\* conn.commit(): publishes the write and releases the lock.
RaceCommit(p) ==
    /\ txn.pc[p] = "commit"
    /\ question_bank' = txn.pending[p]
    /\ txn' = [txn EXCEPT !.pc[p] = "close", !.lock = 0]
    /\ UNCHANGED <<otherTables, sessionVars, flowVars, current_mcq,
                   call, recorded, passed, matched>>

\* conn.close()
RaceClose(p) ==
    /\ txn.pc[p] = "close"
    /\ txn' = [txn EXCEPT !.pc[p] = "done"]
    /\ UNCHANGED <<storeVars, sessionVars, flowVars, current_mcq, call,
                   recorded, passed, matched>>

InitRace ==
    /\ question_bank \in [{1} -> AskedRows]
    /\ recorded = RecordedOf(question_bank)
    /\ quiz_history = <<>>
    /\ users = NoUsers
    /\ sqlite_sequence = MaxBank
    /\ InitUserData
    /\ \E ic \in [Procs -> BOOLEAN] :
          txn = [pc |-> [p \in Procs |-> "connect"], lock |-> 0,
                 is_correct |-> ic,
                 pending |-> [p \in Procs |-> question_bank],
                 before |-> question_bank[1], overlapped |-> FALSE]

NextRace ==
    \E p \in Procs :
        \/ RaceConnect(p)
        \/ RaceExecute(p)
        \/ RaceCommit(p)
        \/ RaceClose(p)

SpecRace == InitRace /\ [][NextRace]_vars

(***************************************************************************)
(* Handlers (handlers/commands.py, handlers/callbacks.py,                  *)
(* handlers/messages.py).  A handler is an operator on a context c: the    *)
(* tables, the user_data of the user whose update is handled, and out, the *)
(* replies sent so far.                                                    *)
(*  - current_mcq and editing_question hold question dicts; of their keys  *)
(*    only 'id' and the new_* keys are read for anything but a prompt's    *)
(*    text, so current_mcq is the id and editing_question the id with the  *)
(*    new_* keys.  editing_question_id is set and popped together with     *)
(*    editing_question and never read.                                     *)
(*  - callback data is the sequence of its '_'-separated parts.            *)
(*  - an exception no handler catches ends the handler where it is raised: *)
(*    what was written before stays, and out ends with UNHANDLED_EXCEPTION *)
(*    (main.error_handler only logs).                                      *)
(*  - Telegram accepts every reply (send_question's BadRequest branch is   *)
(*    not taken), and table knowledge_base, which nothing reads, is not    *)
(*    represented.                                                         *)
(***************************************************************************)
Ctx(u) ==
    [question_bank |-> question_bank, quiz_history |-> quiz_history,
     users |-> users, sqlite_sequence |-> sqlite_sequence,
     current_quiz |-> current_quiz[u], current_question |-> current_question[u],
     score |-> score[u], current_mcq |-> current_mcq[u],
     editing_question |-> editing_question[u], awaiting_edit |-> awaiting_edit[u],
     awaiting |-> awaiting[u], temp_min_questions |-> temp_min_questions[u],
     awaiting_quiz_count |-> awaiting_quiz_count[u], upload_mode |-> upload_mode[u],
     creating_custom_question |-> creating_custom_question[u],
     custom_question_step |-> custom_question_step[u],
     custom_qn_data |-> custom_qn_data[u],
     recorded |-> recorded, passed |-> passed[u], matched |-> matched[u],
     out |-> <<>>]

\* reply_text / edit_message_text with the message msg formatted with args
Say(c, msg, args) == [c EXCEPT !.out = Append(@, [msg |-> msg, args |-> args])]

Raise(c) == Say(c, "UNHANDLED_EXCEPTION", <<>>)

Raised(c) == c.out # <<>> /\ c.out[Len(c.out)].msg = "UNHANDLED_EXCEPTION"

\* score / total * 100 as the fraction's numerator and denominator
Percentage(sc, total) == IF total > 0 THEN Frac(100 * sc, total) ELSE Zero

\* get_quiz_summary with the percentage taken over the questions advanced past
GetQuizSummary_OverAnswered(c) ==
    LET sc == Get(c.score, 0)
        total == Len(Get(c.current_quiz, <<>>))
    IN  <<sc, total>> \o Percentage(sc, Get(c.current_question, 0))

\* get_quiz_summary: score, total, percentage
GetQuizSummary(c) ==
    LET sc == Get(c.score, 0)
        total == Len(Get(c.current_quiz, <<>>))
    IN  <<sc, total>> \o Percentage(sc, total)

\* get_quiz_progress with the percentage taken over the snapshot's length
GetQuizProgress_OverTotal(c) ==
    LET sc == Get(c.score, 0)
        total == Len(Get(c.current_quiz, <<>>))
    IN  <<sc, Get(c.current_question, 0), total>> \o Percentage(sc, total)

\* get_quiz_progress: score, answered, total, percentage
GetQuizProgress(c) ==
    LET sc == Get(c.score, 0)
        answered == Get(c.current_question, 0)
    IN  <<sc, answered, Len(Get(c.current_quiz, <<>>))>> \o Percentage(sc, answered)

\* end_quiz
EndQuiz(c) ==
    [c EXCEPT !.current_quiz = None, !.current_question = None, !.score = None,
              !.awaiting_quiz_count = None, !.passed = <<>>]

\* send_question
SendQuestion(c) ==
    IF IsQuizComplete(c.current_quiz, c.current_question)
    THEN Say(EndQuiz(c), "QUIZ_COMPLETED", GetQuizSummary(c))
    ELSE LET mcq == GetCurrentQuestion(c.current_quiz, c.current_question)[1]
         IN  Say(c, "QUESTION", <<mcq.id, Get(c.current_question, 0) + 1,
                                  Len(Get(c.current_quiz, <<>>))>>)

\* next_question called twice in a row by the handler
Advance_Twice(c) ==
    LET mcq == GetCurrentQuestion(c.current_quiz, c.current_question)
    IN  [c EXCEPT !.current_question = NextQuestion(NextQuestion(@)),
                  !.passed = Append(@, IF mcq = None THEN 0 ELSE mcq[1].id)]

\* next_question on the context; the question left behind joins passed.
Advance(c) ==
    LET mcq == GetCurrentQuestion(c.current_quiz, c.current_question)
    IN  [c EXCEPT !.current_question = NextQuestion(@),
                  !.passed = Append(@, IF mcq = None THEN 0 ELSE mcq[1].id)]

\* handle_answer
HandleAnswer(c, u, user_answer) ==
    LET mcq == GetCurrentQuestion(c.current_quiz, c.current_question)
        r == ProcessAnswer(c.question_bank, c.quiz_history, c.current_quiz,
                           c.current_question, c.score, u, user_answer)
    IN  IF r.ret = None THEN Raise(c)
        ELSE LET c1 == [c EXCEPT !.question_bank = r.bank,
                                 !.quiz_history = r.hist,
                                 !.score = r.score,
                                 !.recorded = Recorded(@, c.question_bank, mcq[1].id,
                                                       r.ret[1].is_correct),
                                 !.matched = IF user_answer = mcq[1].correct_answer
                                             THEN @ + 1 ELSE @]
                 c2 == Advance([c1 EXCEPT !.current_mcq = Some(mcq[1].id)])
             IN  IF r.ret[1].is_correct
                 THEN IF IsQuizComplete(c2.current_quiz, c2.current_question)
                      THEN Say(c2, "CORRECT_ANSWER_FINAL", <<>>)
                      ELSE Say(c2, "CORRECT_ANSWER", <<>>)
                 ELSE Say(c1, "INCORRECT_ANSWER", <<>>)

\* show_solution
ShowSolution(c) ==
    LET mcq == GetCurrentQuestion(c.current_quiz, c.current_question)
    IN  IF mcq = None THEN Raise([c EXCEPT !.current_mcq = None])
        ELSE LET c1 == Advance([c EXCEPT !.current_mcq = Some(mcq[1].id)])
             IN  IF IsQuizComplete(c1.current_quiz, c1.current_question)
                 THEN Say(EndQuiz(Say(c1, "SOLUTION", <<>>)),
                          "QUIZ_COMPLETED", GetQuizSummary(c1))
                 ELSE Say(c1, "SOLUTION", <<>>)

\* The dict start_question_edit stores, before any new_* key is set.
Editing(id) ==
    [id |-> id, new_question |-> None, new_options |-> None,
     new_correct_answer |-> None, new_explanation |-> None]

\* start_question_edit
StartQuestionEdit(c) ==
    LET mcq == GetCurrentQuestion(c.current_quiz, c.current_question)
        orig_mcq == IF c.current_mcq # None THEN c.current_mcq
                    ELSE IF mcq = None THEN None ELSE Some(mcq[1].id)
    IN  IF orig_mcq = None THEN Raise(c)
        ELSE Say([c EXCEPT !.editing_question = Some(Editing(orig_mcq[1]))],
                 "EDIT_QUESTION_START", <<orig_mcq[1]>>)

\* A pop that takes the entry after position i along with the entry at i.
RemoveAt_Two(seq, i) == SubSeq(seq, 1, i - 1) \o SubSeq(seq, i + 2, Len(seq))

\* list.pop(i) for the 1-based position i
RemoveAt(seq, i) == SubSeq(seq, 1, i - 1) \o SubSeq(seq, i + 1, Len(seq))

\* The delete branch stepping the index back whether or not an entry was removed.
DeleteConfirm_AlwaysBack(c, u) ==
    LET question_id == c.editing_question[1].id
        r == DeleteQuestion(c.question_bank, question_id, u)
        quiz == Get(c.current_quiz, <<>>)
        curr_idx == Get(c.current_question, 0)
        hits == {i \in 1..Len(quiz) : quiz[i].id = question_id}
        removed_index == IF hits = {} THEN None
                         ELSE Some((CHOOSE i \in hits : \A j \in hits : i <= j) - 1)
        c1 == IF ~r.ok THEN Say(c, "DELETE_FAILED", <<>>)
              ELSE Say([c EXCEPT
                          !.question_bank = r.bank,
                          !.recorded = [@ EXCEPT ![question_id] = <<0, 0>>],
                          !.current_quiz =
                              IF removed_index = None THEN @
                              ELSE Some(RemoveAt(quiz, removed_index[1] + 1)),
                          !.current_question =
                              IF curr_idx > 0
                              THEN Some(curr_idx - 1) ELSE @],
                       "QUESTION_DELETED", <<>>)
    IN  SendQuestion([c1 EXCEPT !.editing_question = None, !.awaiting_edit = None])

\* The branch 'edit_delete_confirm' of handle_edit_response.
DeleteConfirm(c, u) ==
    LET question_id == c.editing_question[1].id
        r == DeleteQuestion(c.question_bank, question_id, u)
        quiz == Get(c.current_quiz, <<>>)
        curr_idx == Get(c.current_question, 0)
        hits == {i \in 1..Len(quiz) : quiz[i].id = question_id}
        removed_index == IF hits = {} THEN None
                         ELSE Some((CHOOSE i \in hits : \A j \in hits : i <= j) - 1)
        c1 == IF ~r.ok THEN Say(c, "DELETE_FAILED", <<>>)
              ELSE Say([c EXCEPT
                          !.question_bank = r.bank,
                          !.recorded = [@ EXCEPT ![question_id] = <<0, 0>>],
                          !.current_quiz =
                              IF removed_index = None THEN @
                              ELSE Some(RemoveAt(quiz, removed_index[1] + 1)),
                          !.current_question =
                              IF removed_index # None /\ removed_index[1] <= curr_idx
                                 /\ curr_idx > 0
                              THEN Some(curr_idx - 1) ELSE @],
                       "QUESTION_DELETED", <<>>)
    IN  SendQuestion([c1 EXCEPT !.editing_question = None, !.awaiting_edit = None])

\* save_question_edits patching only the first snapshot entry with the id
SaveQuestionEdits_FirstOnly(c, u) ==
    LET c2 ==
          IF c.editing_question = None THEN c
          ELSE LET mcq == c.editing_question[1]
                   f == [question |-> mcq.new_question, options |-> mcq.new_options,
                         correct_answer |-> mcq.new_correct_answer,
                         explanation |-> mcq.new_explanation]
                   r == UpdateQuestion(c.question_bank, mcq.id, u, f)
                   quiz == Get(c.current_quiz, <<>>)
               IN  IF ~r.ok THEN Say(c, "UPDATE_FAILED", <<>>)
                   ELSE SendQuestion(Say(
                          [c EXCEPT
                             !.question_bank = r.bank,
                             !.recorded = [@ EXCEPT ![mcq.id] = <<0, 0>>],
                             !.current_quiz =
                                 IF @ = None THEN @
                                 ELSE Some([i \in 1..Len(quiz) |->
                                              IF /\ quiz[i].id = mcq.id
                                                 /\ \A j \in 1..(i - 1) :
                                                       quiz[j].id # mcq.id
                                              THEN Patch(quiz[i], f) ELSE quiz[i]])],
                          "EDIT_COMPLETE", <<>>))
    IN  [c2 EXCEPT !.editing_question = None, !.awaiting_edit = None]

\* save_question_edits
SaveQuestionEdits(c, u) ==
    LET c2 ==
          IF c.editing_question = None THEN c
          ELSE LET mcq == c.editing_question[1]
                   f == [question |-> mcq.new_question, options |-> mcq.new_options,
                         correct_answer |-> mcq.new_correct_answer,
                         explanation |-> mcq.new_explanation]
                   r == UpdateQuestion(c.question_bank, mcq.id, u, f)
                   quiz == Get(c.current_quiz, <<>>)
               IN  IF ~r.ok THEN Say(c, "UPDATE_FAILED", <<>>)
                   ELSE SendQuestion(Say(
                          [c EXCEPT
                             !.question_bank = r.bank,
                             !.recorded = [@ EXCEPT ![mcq.id] = <<0, 0>>],
                             !.current_quiz =
                                 IF @ = None THEN @
                                 ELSE Some([i \in 1..Len(quiz) |->
                                              IF quiz[i].id = mcq.id
                                              THEN Patch(quiz[i], f) ELSE quiz[i]])],
                          "EDIT_COMPLETE", <<>>))
    IN  [c2 EXCEPT !.editing_question = None, !.awaiting_edit = None]

\* handle_edit_response
HandleEditResponse(c, u, data) ==
    IF c.editing_question = None THEN Say(c, "EDIT_EXPIRED", <<>>)
    ELSE CASE data = <<"edit", "question", "yes">> ->
                [Say(c, "ENTER_NEW_QUESTION", <<>>) EXCEPT
                    !.awaiting_edit = Some("question")]
           [] data = <<"edit", "question", "no">> ->
                Say(c, "EDIT_OPTIONS_START", <<>>)
           [] data = <<"edit", "delete">> ->
                Say(c, "CONFIRM_DELETE_QUESTION", <<>>)
           [] data = <<"edit", "delete", "cancel">> ->
                Say(c, "SKIP_EDIT", <<>>)
           [] data = <<"edit", "delete", "confirm">> ->
                DeleteConfirm(c, u)
           [] data = <<"edit", "options", "yes">> ->
                [Say(c, "ENTER_NEW_OPTIONS", <<>>) EXCEPT
                    !.awaiting_edit = Some("options")]
           [] data = <<"edit", "options", "no">> ->
                Say(c, "EDIT_ANSWER_START", <<>>)
           [] data = <<"edit", "answer", "yes">> ->
                Say(c, "SELECT_NEW_ANSWER", <<>>)
           [] data = <<"edit", "answer", "no">> ->
                Say(c, "EDIT_EXPLANATION_START", <<>>)
           [] data = <<"edit", "explanation", "yes">> ->
                [Say(c, "ENTER_NEW_EXPLANATION", <<>>) EXCEPT
                    !.awaiting_edit = Some("explanation")]
           [] data = <<"edit", "explanation", "no">> ->
                SaveQuestionEdits(c, u)
           [] Len(data) >= 3 /\ data[1] = "set" /\ data[2] = "answer" ->
                Say([c EXCEPT !.editing_question[1].new_correct_answer = Some(data[3])],
                    "EDIT_EXPLANATION_START", <<>>)
           [] OTHER -> c

\* The keys custom_qn_data may hold: each None (absent) or Some(value).
NoCustomData == [question |-> None, options |-> None, correct_answer |-> None,
                 explanation |-> None]

\* button_callback
ButtonCallback(c, u, data) ==
    CASE data = <<"close">> -> c
      [] Len(data) >= 2 /\ data[1] = "answer" -> HandleAnswer(c, u, data[2])
      [] data = <<"retry">> -> SendQuestion(c)
      [] data = <<"show", "solution">> -> ShowSolution(c)
      [] data = <<"next", "question">> -> SendQuestion(c)
      [] data = <<"edit", "question">> -> StartQuestionEdit(c)
      [] /\ data # <<"edit", "question">>
         /\ \/ (Len(data) >= 2 /\ data[1] = "edit")
            \/ (Len(data) >= 3 /\ data[1] = "set" /\ data[2] = "answer") ->
            HandleEditResponse(c, u, data)
      [] data = <<"set", "questions">> ->
            [Say(c, "SET_QUESTIONS_PROMPT", <<>>) EXCEPT !.awaiting = Some("questions")]
      [] data = <<"set", "time">> ->
            [Say(c, "SET_TIME_PROMPT", <<>>) EXCEPT !.awaiting = Some("time")]
      [] data = <<"set", "questions", "per", "chunk">> ->
            [Say(c, "SET_MIN_QUESTIONS_PROMPT", <<>>) EXCEPT
                !.awaiting = Some("min_questions"), !.temp_min_questions = None]
      [] data = <<"confirm", "clear", "knowledge">> ->
            Say(c, "KNOWLEDGE_CLEARED", <<>>)
      [] data = <<"confirm", "clear", "questions">> ->
            Say([c EXCEPT
                   !.question_bank = ClearUserQuestions(@, u),
                   !.recorded = [i \in DOMAIN @ |->
                                   IF i \in DOMAIN c.question_bank
                                      /\ c.question_bank[i].user_id = u
                                   THEN <<0, 0>> ELSE @[i]]],
                "QUESTIONS_CLEARED", <<>>)
      [] Len(data) >= 3 /\ data[1] = "custom" /\ data[2] = "answer" ->
            [Say([c EXCEPT !.custom_qn_data =
                      Some([Get(@, NoCustomData) EXCEPT
                               !.correct_answer = Some(data[3])])],
                 "CORRECT_ANSWER_SET", <<>>) EXCEPT
                !.custom_question_step = Some("explanation")]
      [] data = <<"end", "quiz">> ->
            Say(EndQuiz(c), "QUIZ_ENDED_EARLY", GetQuizProgress(c))
      [] OTHER -> c

\* start_command
StartCommand(c, u, username) ==
    Say([c EXCEPT !.users = SaveUserSettings(@, u, username, NoSettings)],
        "WELCOME_MESSAGE", <<>>)

\* upload_command
UploadCommand(c) ==
    Say([c EXCEPT !.upload_mode = Some(TRUE)], "UPLOAD_INSTRUCTIONS", <<>>)

\* quiz_command
QuizCommand(c, u) ==
    LET question_count == GetQuestionCount(c.question_bank, u)
    IN  IF question_count = 0 THEN Say(c, "EMPTY_BANK_ERROR", <<>>)
        ELSE [Say(c, "ASK_QUIZ_COUNT", <<question_count>>) EXCEPT
                 !.awaiting_quiz_count = Some(TRUE)]

\* handle_quiz_count_input: the contexts the call may leave.
HandleQuizCountInput(c, u, text) ==
    LET question_count == GetQuestionCount(c.question_bank, u)
        num == ParseInt(text)
    IN  IF num # None /\ 1 <= num[1] /\ num[1] <= question_count
        THEN {LET c1 == Say(IF r.success
                            THEN [c EXCEPT !.awaiting_quiz_count = None,
                                           !.current_quiz = Some(r.mcqs),
                                           !.current_question = Some(0),
                                           !.score = Some(0),
                                           !.passed = <<>>, !.matched = 0]
                            ELSE [c EXCEPT !.awaiting_quiz_count = None],
                            r.message, <<>>)
              IN  IF r.success THEN SendQuestion(c1) ELSE c1
              : r \in StartQuiz(c.question_bank, u, num[1])}
        ELSE {Say(c, "INVALID_QUIZ_COUNT", <<question_count>>)}

\* handle_questions_input
HandleQuestionsInput(c, u, username, text) ==
    LET num == ParseInt(text)
    IN  IF num = None THEN Say(c, "INVALID_NUMBER_FORMAT", <<>>)
        ELSE IF MIN_DAILY_QUESTIONS <= num[1] /\ num[1] <= MAX_DAILY_QUESTIONS
        THEN Say([c EXCEPT
                    !.users = SaveUserSettings(@, u, username,
                                 [NoSettings EXCEPT !.daily_questions = num]),
                    !.awaiting = None],
                 "QUESTIONS_SET", num)
        ELSE Say(c, "INVALID_NUMBER", <<>>)

\* handle_time_input
HandleTimeInput(c, u, username, text) ==
    IF Len(text) = 5 /\ text[3] = ":"
    THEN Say([c EXCEPT
                !.users = SaveUserSettings(@, u, username,
                             [NoSettings EXCEPT !.quiz_time = Some(text)]),
                !.awaiting = None],
             "TIME_SET", <<>>)
    ELSE Say(c, "INVALID_TIME_FORMAT", <<>>)

\* handle_min_questions_input
HandleMinQuestionsInput(c, text) ==
    LET num == ParseInt(text)
    IN  IF num = None THEN Say(c, "INVALID_NUMBER_FORMAT", <<>>)
        ELSE IF num[1] > 0
        THEN [Say(c, "SET_MAX_QUESTIONS_PROMPT", num) EXCEPT
                 !.temp_min_questions = num, !.awaiting = Some("max_questions")]
        ELSE Say(c, "INVALID_MIN_QUESTIONS", <<>>)

\* handle_max_questions_input accepting a maximum below the minimum
HandleMaxQuestionsInput_NoCompare(c, u, username, text) ==
    LET num == ParseInt(text)
        min_q == Get(c.temp_min_questions, 0)
    IN  IF num = None THEN Say(c, "INVALID_NUMBER_FORMAT", <<>>)
        ELSE IF min_q = 0
        THEN [Say(c, "SET_MIN_QUESTIONS_PROMPT", <<>>) EXCEPT
                 !.awaiting = Some("min_questions")]
        ELSE Say([c EXCEPT
                    !.users = SaveUserSettings(@, u, username,
                                 [NoSettings EXCEPT !.min_questions = Some(min_q),
                                                    !.max_questions = num]),
                    !.awaiting = None, !.temp_min_questions = None],
                 "QUESTIONS_PER_CHUNK_SET", <<min_q, num[1]>>)

\* handle_max_questions_input
HandleMaxQuestionsInput(c, u, username, text) ==
    LET num == ParseInt(text)
        min_q == Get(c.temp_min_questions, 0)
    IN  IF num = None THEN Say(c, "INVALID_NUMBER_FORMAT", <<>>)
        ELSE IF min_q = 0
        THEN [Say(c, "SET_MIN_QUESTIONS_PROMPT", <<>>) EXCEPT
                 !.awaiting = Some("min_questions")]
        ELSE IF num[1] >= min_q
        THEN Say([c EXCEPT
                    !.users = SaveUserSettings(@, u, username,
                                 [NoSettings EXCEPT !.min_questions = Some(min_q),
                                                    !.max_questions = num]),
                    !.awaiting = None, !.temp_min_questions = None],
                 "QUESTIONS_PER_CHUNK_SET", <<min_q, num[1]>>)
        ELSE Say(c, "INVALID_MAX_QUESTIONS", <<min_q>>)

\* handle_question_edit_input leaving the options step when the parse fails
HandleQuestionEditInput_PopOnFail(c, u, text, edit_type) ==
    IF c.editing_question = None THEN Say(c, "EDIT_EXPIRED", <<>>)
    ELSE IF edit_type = "question"
    THEN [Say(c, "EDIT_OPTIONS_START", <<>>) EXCEPT
             !.editing_question[1].new_question = Some(text),
             !.awaiting_edit = None]
    ELSE IF edit_type = "options"
    THEN LET options_list == ParseOptions(text)
         IN  IF options_list = None
             THEN [Say(c, "INVALID_OPTIONS_FORMAT", <<>>) EXCEPT !.awaiting_edit = None]
             ELSE [Say(c, "EDIT_ANSWER_START", <<>>) EXCEPT
                      !.editing_question[1].new_options = options_list,
                      !.awaiting_edit = None]
    ELSE IF edit_type = "explanation"
    THEN [SaveQuestionEdits(
             [c EXCEPT !.editing_question[1].new_explanation = Some(text)], u)
          EXCEPT !.awaiting_edit = None]
    ELSE [c EXCEPT !.awaiting_edit = None]

\* handle_question_edit_input
HandleQuestionEditInput(c, u, text, edit_type) ==
    IF c.editing_question = None THEN Say(c, "EDIT_EXPIRED", <<>>)
    ELSE IF edit_type = "question"
    THEN [Say(c, "EDIT_OPTIONS_START", <<>>) EXCEPT
             !.editing_question[1].new_question = Some(text),
             !.awaiting_edit = None]
    ELSE IF edit_type = "options"
    THEN LET options_list == ParseOptions(text)
         IN  IF options_list = None THEN Say(c, "INVALID_OPTIONS_FORMAT", <<>>)
             ELSE [Say(c, "EDIT_ANSWER_START", <<>>) EXCEPT
                      !.editing_question[1].new_options = options_list,
                      !.awaiting_edit = None]
    ELSE IF edit_type = "explanation"
    THEN [SaveQuestionEdits(
             [c EXCEPT !.editing_question[1].new_explanation = Some(text)], u)
          EXCEPT !.awaiting_edit = None]
    ELSE [c EXCEPT !.awaiting_edit = None]

\* handle_custom_question_input
HandleCustomQuestionInput(c, u, text) ==
    LET step == c.custom_question_step
        custom_qn == Get(c.custom_qn_data, NoCustomData)
    IN  IF step = Some("question")
        THEN [Say(c, "QUESTION_SAVED", <<>>) EXCEPT
                 !.custom_qn_data = Some([custom_qn EXCEPT !.question = Some(Strip(text))]),
                 !.custom_question_step = Some("options")]
        ELSE IF step = Some("options")
        THEN LET options_list == ParseOptions(text)
             IN  IF options_list = None THEN Say(c, "INVALID_OPTIONS_FORMAT", <<>>)
                 ELSE [Say(c, "OPTIONS_SAVED", <<>>) EXCEPT
                          !.custom_qn_data = Some([custom_qn EXCEPT !.options = options_list]),
                          !.custom_question_step = Some("answer")]
        ELSE IF step = Some("explanation")
        THEN LET qn == [custom_qn EXCEPT !.explanation = Some(Strip(text))]
                 c1 == [c EXCEPT !.custom_qn_data = Some(qn)]
             IN  IF qn.question = None \/ qn.options = None \/ qn.correct_answer = None
                 THEN Raise(c1)
                 ELSE LET r == SaveQuestion(c.question_bank, c.sqlite_sequence, u,
                                            qn.question[1], qn.options[1],
                                            qn.correct_answer[1], qn.explanation[1],
                                            <<"C", "u", "s", "t", "o", "m", " ", "Q", "u", "e",
                                              "s", "t", "i", "o", "n">>)
                      IN  [Say(c1, "CUSTOM_QUESTION_CREATED", <<>>) EXCEPT
                              !.question_bank = r.bank, !.sqlite_sequence = r.seq,
                              !.creating_custom_question = None,
                              !.custom_question_step = None,
                              !.custom_qn_data = None]
        ELSE c

\* str(n) for n >= 0
RECURSIVE Str(_)
Str(n) == IF n < 10 THEN <<Digits[n + 1]>> ELSE Str(n \div 10) \o <<Digits[(n % 10) + 1]>>

\* _validate_mcq without the check of the options' number
ValidateMcq_AnyOptions(mcq) ==
    /\ mcq.kind = "dict"
    /\ mcq.question # None /\ mcq.options # None
    /\ mcq.correct_answer # None /\ mcq.explanation # None
    /\ mcq.options[1].list
    /\ mcq.correct_answer[1] \in {<<l>> : l \in Range(OptionLabels)}

\* _validate_mcq.  An element of the parsed answer is a dict, or a string
\* (no key is 'in' it), or a number ('key in mcq' raises TypeError); a key
\* of a dict is absent (None) or holds a value.  The value of 'options' is a
\* list or no list.  Only the keys' presence is asked of question and
\* explanation.
ValidateMcq(mcq) ==
    /\ mcq.kind = "dict"
    /\ mcq.question # None /\ mcq.options # None
    /\ mcq.correct_answer # None /\ mcq.explanation # None
    /\ mcq.options[1].list /\ Len(mcq.options[1].items) = 4
    /\ mcq.correct_answer[1] \in {<<l>> : l \in Range(OptionLabels)}

\* deep_clean of _clean_mcq on printable ASCII and whitespace: a character
\* not allowed becomes a space, runs of spaces become one, the ends are bare.
DeepClean(text) ==
    Join(Words([k \in 1..Len(text) |->
                  IF text[k] \in Whitespace THEN " " ELSE text[k]]))

\* _clean_mcq
CleanMcq(mcq) ==
    [question |-> DeepClean(mcq.question[1]),
     options |-> [k \in 1..Len(mcq.options[1].items) |->
                     DeepClean(mcq.options[1].items[k])],
     correct_answer |-> Upper(Strip(mcq.correct_answer[1])[1]),
     explanation |-> DeepClean(mcq.explanation[1])]

\* [self._clean_mcq(mcq) for mcq in mcqs if self._validate_mcq(mcq)]
RECURSIVE ValidatedOf(_)
ValidatedOf(mcqs) ==
    IF mcqs = <<>> THEN <<>>
    ELSE IF ValidateMcq(mcqs[1]) THEN <<CleanMcq(mcqs[1])>> \o ValidatedOf(Tail(mcqs))
    ELSE ValidatedOf(Tail(mcqs))

\* generate_mcqs_from_chunk from the model's answer on: response is None when
\* the request or json.loads failed, else the parsed list.  An element that
\* makes _validate_mcq raise is caught by 'except Exception' and the call
\* returns [].
ValidatedMcqs(response) ==
    IF response = None THEN <<>>
    ELSE IF \E k \in 1..Len(response[1]) : response[1][k].kind = "int" THEN <<>>
    ELSE ValidatedOf(response[1])

\* The lists generate_mcqs_from_chunk may return: the questions of the
\* model's answer that pass _validate_mcq, cleaned; [] when the call fails.
GenerateMcqsFromChunk(content, min_questions, max_questions) ==
    {<<>>,
     <<[question |-> <<"g">>, options |-> Options0, correct_answer |-> "B",
        explanation |-> <<"h">>]>>}

\* The save loop putting each saved question at the end of a running
\* session's snapshot as well
RECURSIVE SaveAll_IntoSnapshot(_, _, _, _)
SaveAll_IntoSnapshot(c, u, mcqs, source) ==
    IF mcqs = <<>> THEN c
    ELSE LET r == SaveQuestion(c.question_bank, c.sqlite_sequence, u,
                               mcqs[1].question, mcqs[1].options,
                               mcqs[1].correct_answer, mcqs[1].explanation, source)
         IN  SaveAll_IntoSnapshot(
                 [c EXCEPT !.question_bank = r.bank, !.sqlite_sequence = r.seq,
                           !.current_quiz =
                               IF @ = None THEN @
                               ELSE Some(Append(@[1], Entry(r.bank, r.seq)))],
                 u, Tail(mcqs), source)

\* The loop 'for mcq in mcqs: save_question(...)' of process_and_generate_questions.
RECURSIVE SaveAll(_, _, _, _)
SaveAll(c, u, mcqs, source) ==
    IF mcqs = <<>> THEN c
    ELSE LET r == SaveQuestion(c.question_bank, c.sqlite_sequence, u,
                               mcqs[1].question, mcqs[1].options,
                               mcqs[1].correct_answer, mcqs[1].explanation, source)
         IN  SaveAll([c EXCEPT !.question_bank = r.bank, !.sqlite_sequence = r.seq],
                     u, Tail(mcqs), source)

\* process_and_generate_questions abandoning the remaining chunks once the
\* generator returns nothing for a chunk
RECURSIVE ProcessChunks_StopOnFailure(_, _, _, _, _)
ProcessChunks_StopOnFailure(c, u, chunks, source, n) ==
    IF n > Len(chunks) THEN {[c |-> c, total |-> 0, counts |-> <<>>]}
    ELSE LET settings == GetUserSettings(c.users, u)
             label == source \o <<" ", "-", " ">> \o chunks[n][1]
         IN  UNION {IF mcqs = <<>> THEN {[c |-> c, total |-> 0, counts |-> <<0>>]}
                    ELSE {[c |-> r.c, total |-> r.total + Len(mcqs),
                           counts |-> <<Len(mcqs)>> \o r.counts]
                          : r \in ProcessChunks_StopOnFailure(
                                      SaveAll(c, u, mcqs, label), u, chunks,
                                      source, n + 1)}
                    : mcqs \in GenerateMcqsFromChunk(chunks[n][2],
                                   settings.min_questions_per_chunk,
                                   settings.max_questions_per_chunk)}

\* The loop 'for chunk_name, chunk_content in chunks' of
\* process_and_generate_questions from chunk n on: the outcomes the loop may
\* end with, each the context left, the total returned and, for the record,
\* the length of the list the generator returned for each chunk it was
\* called for.
RECURSIVE ProcessChunks(_, _, _, _, _)
ProcessChunks(c, u, chunks, source, n) ==
    IF n > Len(chunks) THEN {[c |-> c, total |-> 0, counts |-> <<>>]}
    ELSE LET settings == GetUserSettings(c.users, u)
             label == source \o <<" ", "-", " ">> \o chunks[n][1]
         IN  UNION {{[c |-> r.c, total |-> r.total + Len(mcqs),
                      counts |-> <<Len(mcqs)>> \o r.counts]
                     : r \in ProcessChunks(SaveAll(c, u, mcqs, label), u, chunks,
                                           source, n + 1)}
                    : mcqs \in GenerateMcqsFromChunk(chunks[n][2],
                                   settings.min_questions_per_chunk,
                                   settings.max_questions_per_chunk)}

\* The chunk_name of a chunk of text: f"Chunk {i+1}" for the 1-based n = i+1
ChunkName(n) == <<"C", "h", "u", "n", "k", " ">> \o Str(n)

\* [(f"Chunk {i+1}", chunk) for i, chunk in enumerate(chunk_text(content, chunk_size))]
NamedChunks(content, chunk_size) ==
    LET chunks == ChunkText(content, chunk_size)
    IN  [n \in 1..Len(chunks) |-> <<ChunkName(n), chunks[n]>>]

\* process_and_generate_questions with chunks=None
ProcessAndGenerateQuestions(c, u, content, source) ==
    ProcessChunks(c, u, NamedChunks(content, CHUNK_SIZE_WORDS), source, 1)

\* handle_text serving upload mode before any open prompt
HandleText_UploadFirst(c, u, username, text) ==
    IF c.upload_mode = Some(TRUE)
    THEN {[Say(r.c, "TEXT_QUESTIONS_COMPLETE", <<r.total>>) EXCEPT !.upload_mode = None]
          : r \in ProcessAndGenerateQuestions(
                      Say(c, "DOCUMENT_SAVED", <<>>), u, text,
                      <<"T", "e", "x", "t", " ", "m", "e", "s", "s", "a", "g", "e">>)}
    ELSE IF c.awaiting_quiz_count = Some(TRUE) THEN HandleQuizCountInput(c, u, text)
    ELSE IF c.creating_custom_question = Some(TRUE)
    THEN {HandleCustomQuestionInput(c, u, text)}
    ELSE IF c.awaiting = Some("questions") THEN {HandleQuestionsInput(c, u, username, text)}
    ELSE IF c.awaiting = Some("time") THEN {HandleTimeInput(c, u, username, text)}
    ELSE IF c.awaiting = Some("min_questions") THEN {HandleMinQuestionsInput(c, text)}
    ELSE IF c.awaiting = Some("max_questions")
    THEN {HandleMaxQuestionsInput(c, u, username, text)}
    ELSE IF c.awaiting_edit # None
    THEN {HandleQuestionEditInput(c, u, text, c.awaiting_edit[1])}
    ELSE {Say(c, "USE_UPLOAD_FIRST", <<>>)}

\* handle_text: the contexts the call may leave.
HandleText(c, u, username, text) ==
    IF c.awaiting_quiz_count = Some(TRUE) THEN HandleQuizCountInput(c, u, text)
    ELSE IF c.creating_custom_question = Some(TRUE)
    THEN {HandleCustomQuestionInput(c, u, text)}
    ELSE IF c.awaiting = Some("questions") THEN {HandleQuestionsInput(c, u, username, text)}
    ELSE IF c.awaiting = Some("time") THEN {HandleTimeInput(c, u, username, text)}
    ELSE IF c.awaiting = Some("min_questions") THEN {HandleMinQuestionsInput(c, text)}
    ELSE IF c.awaiting = Some("max_questions")
    THEN {HandleMaxQuestionsInput(c, u, username, text)}
    ELSE IF c.awaiting_edit # None
    THEN {HandleQuestionEditInput(c, u, text, c.awaiting_edit[1])}
    ELSE IF c.upload_mode # Some(TRUE) THEN {Say(c, "USE_UPLOAD_FIRST", <<>>)}
    ELSE {[Say(r.c, "TEXT_QUESTIONS_COMPLETE", <<r.total>>) EXCEPT !.upload_mode = None]
          : r \in ProcessAndGenerateQuestions(
                      Say(c, "DOCUMENT_SAVED", <<>>), u, text,
                      <<"T", "e", "x", "t", " ", "m", "e", "s", "s", "a", "g", "e">>)}

(***************************************************************************)
(* Updates: one action per handler the application registers (main.py).    *)
(* A button of any message sent earlier can be pressed at any time.        *)
(***************************************************************************)
\* user_data and the tables after the handler left context c; the bounds on
\* the answers recorded and the ids assigned cut the behaviours.
Apply(u, c, op, args) ==
    /\ Len(c.quiz_history) <= MaxHist
    /\ c.sqlite_sequence <= MaxBank
    /\ question_bank' = c.question_bank
    /\ quiz_history' = c.quiz_history
    /\ users' = c.users
    /\ sqlite_sequence' = c.sqlite_sequence
    /\ current_quiz' = [current_quiz EXCEPT ![u] = c.current_quiz]
    /\ current_question' = [current_question EXCEPT ![u] = c.current_question]
    /\ score' = [score EXCEPT ![u] = c.score]
    /\ current_mcq' = [current_mcq EXCEPT ![u] = c.current_mcq]
    /\ editing_question' = [editing_question EXCEPT ![u] = c.editing_question]
    /\ awaiting_edit' = [awaiting_edit EXCEPT ![u] = c.awaiting_edit]
    /\ awaiting' = [awaiting EXCEPT ![u] = c.awaiting]
    /\ temp_min_questions' = [temp_min_questions EXCEPT ![u] = c.temp_min_questions]
    /\ awaiting_quiz_count' = [awaiting_quiz_count EXCEPT ![u] = c.awaiting_quiz_count]
    /\ upload_mode' = [upload_mode EXCEPT ![u] = c.upload_mode]
    /\ creating_custom_question' =
          [creating_custom_question EXCEPT ![u] = c.creating_custom_question]
    /\ custom_question_step' = [custom_question_step EXCEPT ![u] = c.custom_question_step]
    /\ custom_qn_data' = [custom_qn_data EXCEPT ![u] = c.custom_qn_data]
    /\ recorded' = c.recorded
    /\ passed' = [passed EXCEPT ![u] = c.passed]
    /\ matched' = [matched EXCEPT ![u] = c.matched]
    /\ call' = Call(op, args, <<current_quiz[u], current_question[u]>>, c.out)
    /\ txn' = txn

Username(u) == <<"u">>

\* CallbackQueryHandler(button_callback)
CallbackQuery(u, data) ==
    Apply(u, ButtonCallback(Ctx(u), u, data), "button_callback", <<u, data>>)

\* MessageHandler(filters.TEXT & ~filters.COMMAND, handle_text)
TextMessage(u, text) ==
    \E c \in HandleText(Ctx(u), u, Username(u), text) :
        Apply(u, c, "handle_text", <<u, text>>)

\* CommandHandler('quiz', quiz_command)
CommandQuiz(u) == Apply(u, QuizCommand(Ctx(u), u), "quiz_command", <<u>>)

\* CommandHandler('start', start_command)
CommandStart(u) ==
    Apply(u, StartCommand(Ctx(u), u, Username(u)), "start_command", <<u>>)

\* CommandHandler('upload', upload_command)
CommandUpload(u) == Apply(u, UploadCommand(Ctx(u)), "upload_command", <<u>>)

\* The entry of the custom question creation flow.  No handler of
\* handlers/*.py sets creating_custom_question; the flow is opened as the
\* specification describes it, at the question step with no field collected.
AddQuestionCommand(c) ==
    [Say(c, "ENTER_CUSTOM_QUESTION", <<>>) EXCEPT
        !.creating_custom_question = Some(TRUE),
        !.custom_question_step = Some("question"),
        !.custom_qn_data = None]

CommandAddQuestion(u) ==
    Apply(u, AddQuestionCommand(Ctx(u)), "add_question_command", <<u>>)

(***************************************************************************)
(* Spec: a user taking quizzes, with the buttons of the quiz and of the    *)
(* edit flow's delete sub-flow                                             *)
(***************************************************************************)
QuizButtons ==
    {<<"answer", a>> : a \in Labels}
    \cup {<<"retry">>, <<"show", "solution">>, <<"next", "question">>,
          <<"edit", "question">>, <<"edit", "delete">>,
          <<"edit", "delete", "confirm">>, <<"edit", "delete", "cancel">>,
          <<"end", "quiz">>}

\* The counts a user may type at the quiz-count prompt, and a text no number.
QuizTexts == {Str(k) : k \in 0..(MaxQuizBank + 1)} \cup {<<"x">>}

Init ==
    /\ question_bank \in BanksOf(1..MaxQuizBank, FreshRows)
    /\ recorded = RecordedOf(question_bank)
    /\ InitRest

Next ==
    \E u \in Users :
        \/ \E data \in QuizButtons : CallbackQuery(u, data)
        \/ \E text \in QuizTexts : TextMessage(u, text)
        \/ CommandQuiz(u)

Spec == Init /\ [][Next]_vars

(***************************************************************************)
(* SpecFlows: a user opening and answering the settings flows, the quiz-   *)
(* count prompt and upload mode                                            *)
(***************************************************************************)
FlowButtons ==
    {<<"set", "questions">>, <<"set", "time">>,
     <<"set", "questions", "per", "chunk">>, <<"close">>}

\* Numbers in and out of the ranges the inputs are checked against, a time
\* and a text that is neither.
FlowTexts ==
    {<<"0">>, <<"1">>, <<"4">>, <<"2", "1">>, <<"x", "y">>,
     <<"0", "8", ":", "3", "0">>}

InitFlows ==
    /\ question_bank \in BanksOf({1}, {RowWith(1, 0, 0)})
    /\ recorded = RecordedOf(question_bank)
    /\ quiz_history = <<>>
    /\ users = NoUsers
    /\ sqlite_sequence = MaxBank - 1
    /\ InitUserData
    /\ txn = <<>>

NextFlows ==
    \E u \in Users :
        \/ \E data \in FlowButtons : CallbackQuery(u, data)
        \/ \E text \in FlowTexts : TextMessage(u, text)
        \/ CommandQuiz(u)
        \/ CommandStart(u)
        \/ CommandUpload(u)

SpecFlows == InitFlows /\ [][NextFlows]_vars

(***************************************************************************)
(* SpecEdit: a user editing the options and the answer of questions during *)
(* a quiz whose snapshot may hold a question twice                         *)
(***************************************************************************)
EditButtons ==
    {<<"show", "solution">>, <<"edit", "question">>,
     <<"edit", "options", "yes">>, <<"set", "answer", "B">>,
     <<"edit", "explanation", "no">>}

\* Four option lines, as typed at the options step.
OptionsText == <<"a", ")", "z", "\n", "B", ".", "y", "\n", "C", " ", "x", "\n",
                 "D", ":", "w">>

\* A quiz count, which is also a one-line text, and four option lines.
EditTexts == {Str(MaxQuizBank), OptionsText}

InitEdit ==
    /\ question_bank = [i \in 1..(MaxQuizBank + 1) |-> RowWith(1, 0, 0)]
    /\ recorded = RecordedOf(question_bank)
    /\ InitRest

\* The behaviours of SpecEdit are cut where more than MaxEdited rows differ
\* from what the store held as the process started.
NextEdit ==
    /\ \E u \in Users :
          \/ \E data \in EditButtons : CallbackQuery(u, data)
          \/ \E text \in EditTexts : TextMessage(u, text)
          \/ CommandQuiz(u)
    /\ Cardinality({i \in DOMAIN question_bank' :
                       question_bank'[i] # RowWith(1, 0, 0)}) <= MaxEdited

SpecEdit == InitEdit /\ [][NextEdit]_vars

(***************************************************************************)
(* SpecRouting: texts arriving with upload mode on or off while a settings *)
(* prompt, the quiz-count prompt or a text step of the edit flow is open   *)
(***************************************************************************)
RoutingButtons ==
    {<<"set", "questions">>, <<"set", "questions", "per", "chunk">>,
     <<"edit", "question">>, <<"edit", "question", "yes">>,
     <<"edit", "options", "yes">>}

\* A number and a text that is none.
RoutingTexts == {<<"1">>, <<"x">>}

NextRouting ==
    \E u \in Users :
        \/ \E data \in RoutingButtons : CallbackQuery(u, data)
        \/ \E text \in RoutingTexts : TextMessage(u, text)
        \/ CommandQuiz(u)
        \/ CommandUpload(u)

SpecRouting == InitFlows /\ [][NextRouting]_vars

(***************************************************************************)
(* SpecParse: _parse_options applied to texts of a few lines               *)
(***************************************************************************)
\* Lines a user may type at an options step: with each separator and with
\* none, with a lower-case label, with nothing after the separator, with
\* nothing after the label, with no label, and a blank line.
OptionLines ==
    {<<"A", ")", " ", "w">>, <<"a", ")">>, <<"B", "-", "x">>, <<"c", ":", "y">>,
     <<"D", " ", "z">>, <<"b">>, <<"E", "x">>, <<" ">>}

\* '\n'.join(lines)
RECURSIVE JoinLines(_)
JoinLines(ls) ==
    IF ls = <<>> THEN <<>>
    ELSE IF Len(ls) = 1 THEN ls[1]
    ELSE ls[1] \o <<"\n">> \o JoinLines(Tail(ls))

\* The lines of the text are drawn; the call parses the text they make.
ApiParseOptions ==
    /\ call.op = "input"
    /\ call' = Call("_parse_options", call.args, <<>>,
                    ParseOptions(JoinLines(call.args[1])))
    /\ UNCHANGED <<storeVars, sessionVars, flowVars, current_mcq, recorded,
                   passed, matched, txn>>

InitParse ==
    /\ question_bank = [i \in {} |-> 0]
    /\ recorded = RecordedOf(question_bank)
    /\ quiz_history = <<>>
    /\ users = NoUsers
    /\ sqlite_sequence = 0
    /\ txn = <<>>
    /\ current_quiz = [u \in Users |-> None]
    /\ current_question = [u \in Users |-> None]
    /\ score = [u \in Users |-> None]
    /\ current_mcq = [u \in Users |-> None]
    /\ editing_question = [u \in Users |-> None]
    /\ awaiting_edit = [u \in Users |-> None]
    /\ awaiting = [u \in Users |-> None]
    /\ temp_min_questions = [u \in Users |-> None]
    /\ awaiting_quiz_count = [u \in Users |-> None]
    /\ upload_mode = [u \in Users |-> None]
    /\ creating_custom_question = [u \in Users |-> None]
    /\ custom_question_step = [u \in Users |-> None]
    /\ custom_qn_data = [u \in Users |-> None]
    /\ passed = [u \in Users |-> <<>>]
    /\ matched = [u \in Users |-> 0]
    /\ \E n \in (MaxLines - 2)..MaxLines :
          \E ls \in [1..n -> OptionLines] : call = Call("input", <<ls>>, <<>>, <<>>)

NextParse == ApiParseOptions

SpecParse == InitParse /\ [][NextParse]_vars

(***************************************************************************)
(* SpecForms: the text steps of the edit flow and of the creation flow     *)
(***************************************************************************)
FormButtons ==
    {<<"edit", "question">>, <<"edit", "question", "yes">>,
     <<"edit", "options", "yes">>, <<"custom", "answer", "B">>}

\* A quiz count, which is also a one-line text, and four option lines.
FormTexts == {<<"1">>, OptionsText}

NextForms ==
    \E u \in Users :
        \/ \E data \in FormButtons : CallbackQuery(u, data)
        \/ \E text \in FormTexts : TextMessage(u, text)
        \/ CommandQuiz(u)
        \/ CommandAddQuestion(u)

SpecForms == InitFlows /\ [][NextForms]_vars

(***************************************************************************)
(* SpecIngest: process_and_generate_questions called on contents of a few  *)
(* words.  config.CHUNK_SIZE_WORDS is 1000; chunk_text takes the size as   *)
(* its parameter, and the contents here are chunked with sizes 1 to 3 so   *)
(* that a content of MaxWords words spans several chunks.                  *)
(***************************************************************************)
\* The words of the longest content, in order.
IngestWords == [k \in 1..MaxWords |-> IF k % 2 = 0 THEN <<"b">> \o Str(k) ELSE Str(k)]

ChunkSizes == {1, 2, 3}

\* The first n words a space apart, for every n up to MaxWords, and contents
\* with whitespace at the ends and runs of whitespace between the words.
IngestContents ==
    {Join(SubSeq(IngestWords, 1, n)) : n \in 0..MaxWords}
    \cup {<<" ">>, <<" ", "a", " ", "\n", "b", "c", "\n">>}

\* "Text message" stands for itself; a file name with two spaces in a row.
IngestSources ==
    {<<"T", "e", "x", "t", " ", "m", "e", "s", "s", "a", "g", "e">>,
     <<"n", " ", " ", "t">>}

\* The arguments are drawn; the call ingests the content for the user.
ApiProcessAndGenerateQuestions ==
    /\ call.op = "input"
    /\ \E r \in ProcessChunks(Ctx(call.args[1]), call.args[1],
                              NamedChunks(call.args[2], call.args[4]),
                              call.args[3], 1) :
          /\ r.c.sqlite_sequence <= MaxBank
          /\ question_bank' = r.c.question_bank
          /\ sqlite_sequence' = r.c.sqlite_sequence
          /\ call' = Call("process_and_generate_questions", call.args,
                          <<question_bank, sqlite_sequence>>,
                          [total |-> r.total, counts |-> r.counts])
    /\ UNCHANGED <<quiz_history, users, sessionVars, flowVars, current_mcq,
                   recorded, passed, matched, txn>>

\* The bank is empty or holds a question ingested earlier.
InitIngest ==
    /\ question_bank \in BanksOf({1}, {RowWith(1, 0, 0)})
    /\ recorded = RecordedOf(question_bank)
    /\ quiz_history = <<>>
    /\ users = NoUsers
    /\ sqlite_sequence = Cardinality(DOMAIN question_bank)
    /\ txn = <<>>
    /\ current_quiz = [u \in Users |-> None]
    /\ current_question = [u \in Users |-> None]
    /\ score = [u \in Users |-> None]
    /\ current_mcq = [u \in Users |-> None]
    /\ editing_question = [u \in Users |-> None]
    /\ awaiting_edit = [u \in Users |-> None]
    /\ awaiting = [u \in Users |-> None]
    /\ temp_min_questions = [u \in Users |-> None]
    /\ awaiting_quiz_count = [u \in Users |-> None]
    /\ upload_mode = [u \in Users |-> None]
    /\ creating_custom_question = [u \in Users |-> None]
    /\ custom_question_step = [u \in Users |-> None]
    /\ custom_qn_data = [u \in Users |-> None]
    /\ passed = [u \in Users |-> <<>>]
    /\ matched = [u \in Users |-> 0]
    /\ \E u \in Users, content \in IngestContents, source \in IngestSources,
          chunk_size \in ChunkSizes :
          call = Call("input", <<u, content, source, chunk_size>>, <<>>, <<>>)

NextIngest == ApiProcessAndGenerateQuestions

SpecIngest == InitIngest /\ [][NextIngest]_vars

(***************************************************************************)
(* SpecGenerate: one chunk ingested, for every answer of the model         *)
(***************************************************************************)
NoKeys ==
    [kind |-> "dict", question |-> None, options |-> None,
     correct_answer |-> None, explanation |-> None]

OptionsList(items) == Some([list |-> TRUE, items |-> items])

\* A candidate with every key, 4 options and the answer B; its texts hold
\* whitespace that cleaning removes.
GoodCandidate ==
    [kind |-> "dict", question |-> Some(<<" ", "g", "\n", "k">>),
     options |-> OptionsList(Options0), correct_answer |-> Some(<<"B">>),
     explanation |-> Some(<<"h", " ", " ", "i">>)]

\* The candidates of an answer: the good one, one with an empty question
\* text, and candidates that lack a key, hold 3 or 5 options or a string
\* for them, name the answer "E", "b" or " A", or are no dict.
Candidates ==
    {GoodCandidate,
     [GoodCandidate EXCEPT !.question = Some(<<>>), !.correct_answer = Some(<<"D">>)],
     [GoodCandidate EXCEPT !.question = None],
     [GoodCandidate EXCEPT !.options = None],
     [GoodCandidate EXCEPT !.correct_answer = None],
     [GoodCandidate EXCEPT !.explanation = None],
     [GoodCandidate EXCEPT !.options = OptionsList(SubSeq(Options0, 1, 3))],
     [GoodCandidate EXCEPT !.options = OptionsList(Options0 \o <<<<"E">>>>)],
     [GoodCandidate EXCEPT !.options = Some([list |-> FALSE, items |-> <<>>])],
     [GoodCandidate EXCEPT !.correct_answer = Some(<<"E">>)],
     [GoodCandidate EXCEPT !.correct_answer = Some(<<"b">>)],
     [GoodCandidate EXCEPT !.correct_answer = Some(<<" ", "A">>)],
     [NoKeys EXCEPT !.kind = "str"],
     [NoKeys EXCEPT !.kind = "int"]}

RECURSIVE SeqsUpTo(_, _)
SeqsUpTo(S, n) ==
    IF n = 0 THEN {<<>>}
    ELSE LET shorter == SeqsUpTo(S, n - 1)
         IN  shorter \cup {Append(s, x) : s \in shorter, x \in S}

\* No answer (the request or the parse failed) or up to MaxCandidates candidates
Responses == {None} \cup {Some(s) : s \in SeqsUpTo(Candidates, MaxCandidates)}

\* process_and_generate_questions on a content of one chunk, the model's
\* answer to the chunk given: the validated questions are saved under the
\* chunk's label and counted.
ApiIngestResponse ==
    /\ call.op = "input"
    /\ LET u == call.args[1]
           mcqs == ValidatedMcqs(call.args[2])
           c == SaveAll(Ctx(u), u, mcqs, Source0 \o <<" ", "-", " ">> \o ChunkName(1))
       IN  /\ question_bank' = c.question_bank
           /\ sqlite_sequence' = c.sqlite_sequence
           /\ call' = Call("process_and_generate_questions", call.args,
                           <<question_bank, sqlite_sequence>>,
                           [total |-> Len(mcqs)])
    /\ UNCHANGED <<quiz_history, users, sessionVars, flowVars, current_mcq,
                   recorded, passed, matched, txn>>

InitGenerate ==
    /\ question_bank \in BanksOf({1}, {RowWith(1, 0, 0)})
    /\ recorded = RecordedOf(question_bank)
    /\ quiz_history = <<>>
    /\ users = NoUsers
    /\ sqlite_sequence = Cardinality(DOMAIN question_bank)
    /\ txn = <<>>
    /\ current_quiz = [u \in Users |-> None]
    /\ current_question = [u \in Users |-> None]
    /\ score = [u \in Users |-> None]
    /\ current_mcq = [u \in Users |-> None]
    /\ editing_question = [u \in Users |-> None]
    /\ awaiting_edit = [u \in Users |-> None]
    /\ awaiting = [u \in Users |-> None]
    /\ temp_min_questions = [u \in Users |-> None]
    /\ awaiting_quiz_count = [u \in Users |-> None]
    /\ upload_mode = [u \in Users |-> None]
    /\ creating_custom_question = [u \in Users |-> None]
    /\ custom_question_step = [u \in Users |-> None]
    /\ custom_qn_data = [u \in Users |-> None]
    /\ passed = [u \in Users |-> <<>>]
    /\ matched = [u \in Users |-> 0]
    /\ \E u \in Users, response \in Responses :
          call = Call("input", <<u, response>>, <<>>, <<>>)

NextGenerate == ApiIngestResponse

SpecGenerate == InitGenerate /\ [][NextGenerate]_vars

(***************************************************************************)
(* SpecRepeat: a user deleting questions during a quiz whose snapshot may  *)
(* hold a question twice                                                   *)
(***************************************************************************)
RepeatButtons ==
    {<<"answer", "A">>, <<"show", "solution">>, <<"next", "question">>,
     <<"edit", "question">>, <<"edit", "delete">>,
     <<"edit", "delete", "confirm">>}

NextRepeat ==
    \E u \in Users :
        \/ \E data \in RepeatButtons : CallbackQuery(u, data)
        \/ TextMessage(u, Str(MaxQuizBank))
        \/ CommandQuiz(u)

SpecRepeat == InitEdit /\ [][NextRepeat]_vars

(***************************************************************************)
(* SpecStart: start_quiz called on any session, while answers are given    *)
(* and questions are deleted from the store                                *)
(***************************************************************************)
NextStart ==
    \E u \in Users :
        \/ \E k \in 0..(MaxQuizBank + 1) : ApiStartQuiz(u, k)
        \/ ApiProcessAnswer(u, "A")
        \/ ApiNextQuestion(u)
        \/ \E question_id \in 1..MaxQuizBank : ApiDeleteQuestion(u, question_id)

SpecStart == InitSession /\ [][NextStart]_vars

(***************************************************************************)
(* SpecEditFlow: a user walking the edit flow's buttons (edit, cancel,     *)
(* delete, save) while the bank may be cleared and the process restarted   *)
(***************************************************************************)
EditFlowButtons ==
    {<<"show", "solution">>, <<"edit", "question">>, <<"edit", "question", "no">>,
     <<"edit", "delete">>, <<"edit", "delete", "cancel">>,
     <<"edit", "delete", "confirm">>, <<"edit", "explanation", "yes">>,
     <<"edit", "explanation", "no">>, <<"confirm", "clear", "questions">>}

\* A quiz count, which is also a new explanation.
EditFlowTexts == {<<"1">>}

\* The process stops and starts again: Application.builder().build() keeps
\* user_data in memory only, so every user's user_data is empty afterwards
\* while the tables, and the keyboards already in the chats, remain.
Restart ==
    /\ current_quiz' = [u \in Users |-> None]
    /\ current_question' = [u \in Users |-> None]
    /\ score' = [u \in Users |-> None]
    /\ current_mcq' = [u \in Users |-> None]
    /\ editing_question' = [u \in Users |-> None]
    /\ awaiting_edit' = [u \in Users |-> None]
    /\ awaiting' = [u \in Users |-> None]
    /\ temp_min_questions' = [u \in Users |-> None]
    /\ awaiting_quiz_count' = [u \in Users |-> None]
    /\ upload_mode' = [u \in Users |-> None]
    /\ creating_custom_question' = [u \in Users |-> None]
    /\ custom_question_step' = [u \in Users |-> None]
    /\ custom_qn_data' = [u \in Users |-> None]
    /\ passed' = [u \in Users |-> <<>>]
    /\ matched' = [u \in Users |-> 0]
    /\ call' = Call("restart", <<>>, <<>>, <<>>)
    /\ UNCHANGED <<question_bank, quiz_history, users, sqlite_sequence, recorded, txn>>

NextEditFlow ==
    \/ \E u \in Users :
          \/ \E data \in EditFlowButtons : CallbackQuery(u, data)
          \/ \E text \in EditFlowTexts : TextMessage(u, text)
          \/ CommandQuiz(u)
    \/ Restart

SpecEditFlow == Init /\ [][NextEditFlow]_vars

(***************************************************************************)
(* SpecSnapshot: a user in a quiz who also ingests a text, authors a       *)
(* question, clears the bank, and deletes or edits the question asked      *)
(***************************************************************************)
SnapshotButtons ==
    {<<"answer", "A">>, <<"edit", "question">>, <<"edit", "delete", "confirm">>,
     <<"custom", "answer", "B">>, <<"confirm", "clear", "questions">>}

\* A quiz count, which is also a content of one word, a question text and an
\* explanation; and four option lines.
SnapshotTexts == {<<"2">>, OptionsText}

InitSnapshot ==
    /\ question_bank = [i \in 1..(MaxBank - 1) |-> RowWith(1, 0, 0)]
    /\ recorded = RecordedOf(question_bank)
    /\ quiz_history = <<>>
    /\ users = NoUsers
    /\ sqlite_sequence = MaxBank - 1
    /\ InitUserData
    /\ txn = <<>>

\* The behaviours of SpecSnapshot are cut where a user has two of upload
\* mode, the creation flow, an edit and the quiz-count prompt open at a time.
NextSnapshot ==
    \E u \in Users :
        /\ \/ \E data \in SnapshotButtons : CallbackQuery(u, data)
           \/ \E text \in SnapshotTexts : TextMessage(u, text)
           \/ CommandQuiz(u)
           \/ CommandUpload(u)
           \/ CommandAddQuestion(u)
        /\ Cardinality({f \in {"upload", "custom", "edit", "quiz_count"} :
                           \/ f = "upload" /\ upload_mode'[u] # None
                           \/ f = "custom" /\ creating_custom_question'[u] # None
                           \/ f = "edit" /\ editing_question'[u] # None
                           \/ f = "quiz_count" /\ awaiting_quiz_count'[u] # None})
              <= 1

SpecSnapshot == InitSnapshot /\ [][NextSnapshot]_vars

(***************************************************************************)
(* SpecUsers: two users, each with a question in the bank, answering,      *)
(* editing, deleting, clearing, changing a setting and ingesting, their    *)
(* updates handled one at a time in any order                              *)
(***************************************************************************)
\* User 1 may press every button below and ingest; user 2 takes quizzes,
\* clears the bank and changes a setting.
TwoUserButtons(u) ==
    {<<"answer", "A">>, <<"confirm", "clear", "questions">>, <<"set", "questions">>}
    \cup IF u = 1
         THEN {<<"edit", "question">>, <<"edit", "delete", "confirm">>,
               <<"edit", "explanation", "no">>}
         ELSE {}

\* A quiz count, which is also a daily question count and a content of one
\* word.
TwoUserTexts == {<<"1">>}

\* user_data is empty for both users; each owns one row of the bank.
InitUsers ==
    /\ question_bank = [i \in Owners |-> RowWith(i, 0, 0)]
    /\ recorded = RecordedOf(question_bank)
    /\ quiz_history = <<>>
    /\ users = NoUsers
    /\ sqlite_sequence = MaxBank - 1
    /\ txn = <<>>
    /\ current_quiz = [u \in Owners |-> None]
    /\ current_question = [u \in Owners |-> None]
    /\ score = [u \in Owners |-> None]
    /\ current_mcq = [u \in Owners |-> None]
    /\ editing_question = [u \in Owners |-> None]
    /\ awaiting_edit = [u \in Owners |-> None]
    /\ awaiting = [u \in Owners |-> None]
    /\ temp_min_questions = [u \in Owners |-> None]
    /\ awaiting_quiz_count = [u \in Owners |-> None]
    /\ upload_mode = [u \in Owners |-> None]
    /\ creating_custom_question = [u \in Owners |-> None]
    /\ custom_question_step = [u \in Owners |-> None]
    /\ custom_qn_data = [u \in Owners |-> None]
    /\ passed = [u \in Owners |-> <<>>]
    /\ matched = [u \in Owners |-> 0]
    /\ call = Call("init", <<>>, <<>>, <<>>)

\* The behaviours of SpecUsers are cut where a user has two of upload mode,
\* an edit, a settings prompt and the quiz-count prompt open at a time.
NextUsers ==
    \E u \in Owners :
        /\ \/ \E data \in TwoUserButtons(u) : CallbackQuery(u, data)
           \/ \E text \in TwoUserTexts : TextMessage(u, text)
           \/ CommandQuiz(u)
           \/ u = 1 /\ CommandUpload(u)
        /\ Cardinality({f \in {"upload", "edit", "settings", "quiz_count"} :
                           \/ f = "upload" /\ upload_mode'[u] # None
                           \/ f = "edit" /\ editing_question'[u] # None
                           \/ f = "settings" /\ awaiting'[u] # None
                           \/ f = "quiz_count" /\ awaiting_quiz_count'[u] # None})
              <= 1

SpecUsers == InitUsers /\ [][NextUsers]_vars

(***************************************************************************)
(* Properties                                                              *)
(***************************************************************************)
NoDuplicateIds(seq) ==
    \A i, j \in 1..Len(seq) : i # j => seq[i].id # seq[j].id

Count(seq, id) == Cardinality({i \in 1..Len(seq) : seq[i].id = id})

SameRatio(acc, num, den) == acc[1] * den = num * acc[2]

\* C1: get_random_questions called with 1 <= k < n on a bank of n questions
\* returns exactly k entries, with pairwise distinct ids, all of the user's bank.
C1_SelectorDistinct ==
    call.op = "get_random_questions" =>
        LET u == call.args[1]
            k == call.args[2]
            all == UserRowIds(question_bank, u)
        IN  (1 <= k /\ k < Len(all)) =>
                /\ Len(call.ret) = k
                /\ NoDuplicateIds(call.ret)
                /\ \A i \in 1..Len(call.ret) : call.ret[i].id \in Range(all)

\* C2: get_random_questions called with k >= n on a non-empty bank of n
\* questions returns each question of the bank exactly once; on an empty bank
\* it returns the empty list.
C2_SelectorWholePool ==
    call.op = "get_random_questions" =>
        LET u == call.args[1]
            k == call.args[2]
            all == UserRowIds(question_bank, u)
        IN  /\ (Len(all) >= 1 /\ k >= Len(all)) =>
                /\ Len(call.ret) = Len(all)
                /\ \A i \in 1..Len(call.ret) :
                      /\ call.ret[i].id \in Range(all)
                      /\ call.ret[i] = Entry(question_bank, call.ret[i].id)
                /\ \A id \in Range(all) : Count(call.ret, id) = 1
            /\ Len(all) = 0 => call.ret = <<>>

C2_Witness ==
    /\ call.op = "get_random_questions"
    /\ GetQuestionCount(question_bank, call.args[1]) = 2
    /\ call.args[2] = 2
    /\ Len(call.ret) = 2

\* C3: start_quiz fails with EmptyBank on an empty bank, else with InvalidCount
\* when k < 1 or k > bank size, and otherwise (k = bank size included) succeeds
\* and leaves a session with index 0, score 0 and a snapshot of k entries.
C3_StartContract ==
    call.op = "start_quiz" =>
        LET u == call.args[1]
            k == call.args[2]
            n == GetQuestionCount(question_bank, u)
        IN  /\ n = 0 =>
                (~call.ret.success /\ call.ret.message = "EMPTY_BANK_ERROR")
            /\ (n > 0 /\ (k < 1 \/ k > n)) =>
                (~call.ret.success /\ call.ret.message = "INVALID_QUIZ_COUNT")
            /\ (n > 0 /\ 1 <= k /\ k <= n) =>
                /\ call.ret.success
                /\ current_question[u] = Some(0)
                /\ score[u] = Some(0)
                /\ current_quiz[u] # None
                /\ Len(current_quiz[u][1]) = k
                /\ current_quiz[u][1] = call.ret.mcqs

C3_Witness ==
    /\ call.op = "start_quiz"
    /\ call.args[2] = 2
    /\ GetQuestionCount(question_bank, call.args[1]) = 2
    /\ call.ret.success
    /\ current_question[call.args[1]] = Some(0)

\* C4: when the delete-confirm button deletes a question during a session
\* (whose snapshot holds no id twice), the question the handler then presents
\* is one the session has not advanced past, and every snapshot entry before
\* it has been advanced past: nothing is shown again and nothing is skipped.
C4_DeleteKeepsOrder ==
    (/\ call.op = "button_callback"
     /\ call.args[2] = <<"edit", "delete", "confirm">>
     /\ call.pre[1] # None
     /\ NoDuplicateIds(call.pre[1][1])
     /\ \E k \in 1..Len(call.ret) : call.ret[k].msg = "QUESTION_DELETED") =>
        LET u == call.args[1]
        IN  \A k \in 1..Len(call.ret) :
                call.ret[k].msg = "QUESTION" =>
                    /\ call.ret[k].args[1] \notin Range(passed[u])
                    /\ \A j \in 1..(call.ret[k].args[2] - 1) :
                          current_quiz[u][1][j].id \in Range(passed[u])

\* The input flows of user u that wait for a text.
OpenFlows(u) ==
    {f \in {"settings", "edit", "custom", "quiz_count"} :
        \/ f = "settings" /\ awaiting[u] # None
        \/ f = "edit" /\ awaiting_edit[u] # None
        \/ f = "custom" /\ creating_custom_question[u] # None
        \/ f = "quiz_count" /\ awaiting_quiz_count[u] # None}

\* C5: in every reachable state each user has at most one pending input flow
\* (settings input, question edit, custom question creation, quiz-count
\* prompt) open.
C5_OneFlowOpen == \A u \in Users : Cardinality(OpenFlows(u)) <= 1

\* s is the summary of a session with score sc and a snapshot of total entries.
IsSummary(s, sc, total) ==
    /\ s[1] = sc
    /\ s[2] = total
    /\ IF total = 0 THEN s[3] = 0 /\ s[4] = 1
       ELSE s[4] > 0 /\ s[3] * total = 100 * sc * s[4]

\* C11: get_quiz_summary returns the number of answers that matched since the
\* session started as the score, the snapshot's length as the total and
\* score / total * 100 as the percentage (0 for an empty snapshot), in every
\* state with a session.
C11_SummaryContract ==
    \A u \in Users :
        current_quiz[u] # None =>
            IsSummary(GetQuizSummary(Ctx(u)), matched[u], Len(current_quiz[u][1]))

\* A two-question session: a wrong answer on the first question, an advance,
\* a correct answer on the second, an advance; the summary is 1 of 2, 50%.
C11_Witness ==
    \E u \in Users :
        /\ call.op = "next_question"
        /\ current_quiz[u] # None
        /\ Len(current_quiz[u][1]) = 2
        /\ current_question[u] = Some(2)
        /\ passed[u] = <<current_quiz[u][1][1].id, current_quiz[u][1][2].id>>
        /\ Len(quiz_history) = 2
        /\ quiz_history[1].question_id = passed[u][1]
        /\ ~quiz_history[1].is_correct
        /\ quiz_history[2].question_id = passed[u][2]
        /\ quiz_history[2].is_correct
        /\ GetQuizSummary(Ctx(u)) = <<1, 2, 50, 1>>

\* The step is a button handled for user u inside one session: the session
\* exists before and after it.
SessionStep(u) ==
    /\ call'.op = "button_callback"
    /\ call'.args[1] = u
    /\ current_quiz[u] # None /\ current_quiz'[u] # None
    /\ current_question[u] # None /\ current_question'[u] # None

\* The step is a delete confirmation that removed from the snapshot an entry at
\* or before the index and moved the index back by one.
DeleteStepBack(u) ==
    /\ call'.args[2] = <<"edit", "delete", "confirm">>
    /\ \E k \in 1..Len(call'.ret) : call'.ret[k].msg = "QUESTION_DELETED"
    /\ current_question'[u][1] = current_question[u][1] - 1
    /\ \E i \in 1..Len(current_quiz[u][1]) :
          /\ i - 1 <= current_question[u][1]
          /\ current_quiz[u][1][i].id \notin DOMAIN question_bank'
          /\ current_quiz'[u][1] = RemoveAt(current_quiz[u][1], i)

\* C12 (as stated): within one session no button (answer, retry, show
\* solution, next, edit, delete) leaves the index smaller than before.
C12_IndexNeverDecreases ==
    [][\A u \in Users :
          SessionStep(u) => current_question'[u][1] >= current_question[u][1]]_vars

\* C12 (amended): within one session the index never decreases, except that a
\* successful delete confirmation that removes an entry at or before the index
\* moves the index back by exactly one.
C12_IndexDecreasesOnlyOnDelete ==
    [][\A u \in Users :
          SessionStep(u) => \/ current_question'[u][1] >= current_question[u][1]
                            \/ DeleteStepBack(u)]_vars

\* A delete confirmation moved the index of a running session from 1 to 0.
C12_Witness ==
    /\ call.op = "button_callback"
    /\ call.args[2] = <<"edit", "delete", "confirm">>
    /\ call.pre[1] # None
    /\ call.pre[2] = Some(1)
    /\ current_quiz[call.args[1]] # None
    /\ current_question[call.args[1]] = Some(0)

\* get_current_question returns no question for user u: the session is
\* complete (index >= snapshot length) or its state is discarded.
Terminal(u) == GetCurrentQuestion(current_quiz[u], current_question[u]) = None

\* C13: from a state where the session is complete or discarded, a step that
\* is not a successful start leaves get_current_question returning no question
\* and leaves the score as it is or discards it with the rest of the session.
C13_TerminalStays ==
    [][\A u \in Users :
          (/\ Terminal(u)
           /\ ~\E k \in 1..Len(call'.ret) : call'.ret[k].msg = "QUIZ_START") =>
              /\ Terminal(u)'
              /\ score'[u] \in {score[u], None}]_vars

\* A delete confirmation removed a snapshot entry of a completed session that
\* had not been discarded yet, and the summary was sent.
C13_Witness ==
    /\ call.op = "button_callback"
    /\ call.args[2] = <<"edit", "delete", "confirm">>
    /\ call.pre[1] # None
    /\ call.pre[2] = Some(Len(call.pre[1][1]))
    /\ Len(call.pre[1][1]) > 0
    /\ Len(call.ret) = 2
    /\ call.ret[1].msg = "QUESTION_DELETED"
    /\ call.ret[2].msg = "QUIZ_COMPLETED"
    /\ call.ret[2].args[2] = Len(call.pre[1][1]) - 1
    /\ Terminal(call.args[1])

\* C14: a successful start_quiz that finds an unfinished session replaces it:
\* the snapshot is the k questions just drawn from the caller's rows, the
\* index is 0 and the score is 0, whatever the session held before.
C14_StartReplaces ==
    \A u \in Users :
        (/\ call.op = "start_quiz"
         /\ call.args[1] = u
         /\ call.ret.success
         /\ GetCurrentQuestion(call.pre[2], call.pre[3]) # None) =>
            /\ current_quiz[u] = Some(call.ret.mcqs)
            /\ Len(current_quiz[u][1]) = call.args[2]
            /\ \A j \in 1..Len(current_quiz[u][1]) :
                  \E i \in Range(UserRowIds(question_bank, u)) :
                      current_quiz[u][1][j] = Entry(question_bank, i)
            /\ current_question[u] = Some(0)
            /\ score[u] = Some(0)

\* start_quiz for one question succeeded on a two-question session that stood
\* at its second question with one point.
C14_Witness ==
    /\ call.op = "start_quiz"
    /\ call.args[2] = 1
    /\ call.ret.success
    /\ call.pre[2] # None
    /\ Len(call.pre[2][1]) = 2
    /\ call.pre[3] = Some(1)
    /\ call.pre[4] = Some(1)
    /\ Len(current_quiz[call.args[1]][1]) = 1
    /\ score[call.args[1]] = Some(0)

\* The value of a field after an edit that supplied o (None: not supplied).
Supplied(o, old) == IF o = None THEN old ELSE o[1]

\* new is old with the text fields the edit e supplied, and nothing else of
\* the fields a snapshot entry and a store row share is changed.
Edited(old, new, e, explanation) ==
    /\ new.question = Supplied(e.new_question, old.question)
    /\ new.options = Supplied(e.new_options, old.options)
    /\ new.correct_answer = Supplied(e.new_correct_answer, old.correct_answer)
    /\ new.explanation = Supplied(explanation, old.explanation)
    /\ new.source = old.source

\* C15: a successful save of an edit changes, in the store row and in every
\* snapshot entry with the edited id, the supplied text fields to the supplied
\* values and no other text field; the other rows and entries, the ids, the
\* snapshot's length and order and the index stay, and afterwards the edited
\* row and the entries with its id hold the same texts.
C15_EditFrame ==
    [][\A u \in Users :
          (/\ call'.op \in {"button_callback", "handle_text"}
           /\ call'.args[1] = u
           /\ editing_question[u] # None
           /\ \E k \in 1..Len(call'.ret) : call'.ret[k].msg = "EDIT_COMPLETE") =>
              LET e == editing_question[u][1]
                  explanation == IF call'.op = "handle_text" THEN Some(call'.args[2])
                                 ELSE e.new_explanation
                  old == question_bank[e.id]
                  new == question_bank'[e.id]
              IN  /\ DOMAIN question_bank' = DOMAIN question_bank
                  /\ \A i \in DOMAIN question_bank \ {e.id} :
                        question_bank'[i] = question_bank[i]
                  /\ Edited(old, new, e, explanation)
                  /\ new.user_id = old.user_id
                  /\ current_quiz[u] = None => current_quiz'[u] = None
                  /\ (current_quiz[u] # None /\ current_quiz'[u] # None) =>
                        LET q == current_quiz[u][1]
                            r == current_quiz'[u][1]
                        IN  /\ Len(r) = Len(q)
                            /\ current_question'[u] = current_question[u]
                            /\ \A j \in 1..Len(q) :
                                  /\ r[j].id = q[j].id
                                  /\ q[j].id # e.id => r[j] = q[j]
                                  /\ q[j].id = e.id =>
                                        /\ Edited(q[j], r[j], e, explanation)
                                        /\ r[j] = Entry(question_bank', e.id)]_vars

\* An edit that supplied options and a correct answer was saved during a
\* session whose snapshot holds the edited question twice: both entries and
\* the row hold the new options and answer and the old question.
C15_Witness ==
    \E u \in Users :
        /\ call.op = "button_callback"
        /\ call.args = <<u, <<"edit", "explanation", "no">> >>
        /\ \E k \in 1..Len(call.ret) : call.ret[k].msg = "EDIT_COMPLETE"
        /\ call.pre[1] # None
        /\ current_quiz[u] # None
        /\ Len(current_quiz[u][1]) = 2
        /\ current_quiz[u][1][1] = current_quiz[u][1][2]
        /\ call.pre[1][1][1].options = Options0
        /\ call.pre[1][1][1].correct_answer = "A"
        /\ current_quiz[u][1][1].options = Options1
        /\ current_quiz[u][1][1].correct_answer = "B"
        /\ current_quiz[u][1][1].question = Question0
        /\ question_bank[current_quiz[u][1][1].id].options = Options1
        /\ question_bank[current_quiz[u][1][1].id].correct_answer = "B"

\* The step handles a text of user u at the max step of the min/max flow: no
\* prompt that handle_text serves first is open.
MaxInputStep(u) ==
    /\ call'.op = "handle_text"
    /\ call'.args[1] = u
    /\ awaiting[u] = Some("max_questions")
    /\ awaiting_quiz_count[u] = None
    /\ creating_custom_question[u] = None

\* C16: with a min m > 0 held, a max input below m is answered with the
\* invalid-max error and leaves the held min, the step and the stored settings
\* as they are; a max input of m or more stores min = m with that max, leaves
\* the other settings as they are and closes the flow.
C16_MaxBelowMinRejected ==
    [][\A u \in Users :
          (/\ MaxInputStep(u)
           /\ temp_min_questions[u] # None
           /\ temp_min_questions[u][1] > 0
           /\ ParseInt(call'.args[2]) # None) =>
              LET m == temp_min_questions[u][1]
                  n == ParseInt(call'.args[2])[1]
                  old == GetUserSettings(users, u)
                  new == GetUserSettings(users', u)
              IN  IF n < m
                  THEN /\ call'.ret = <<[msg |-> "INVALID_MAX_QUESTIONS", args |-> <<m>>]>>
                       /\ temp_min_questions'[u] = Some(m)
                       /\ awaiting'[u] = Some("max_questions")
                       /\ users' = users
                  ELSE /\ new.min_questions_per_chunk = m
                       /\ new.max_questions_per_chunk = n
                       /\ new.daily_questions = old.daily_questions
                       /\ new.quiz_time = old.quiz_time
                       /\ awaiting'[u] = None
                       /\ temp_min_questions'[u] = None]_vars

\* The max input 1 was rejected with the min 4 held.
C16_Witness ==
    \E u \in Users :
        /\ call.op = "handle_text"
        /\ call.args = <<u, <<"1">> >>
        /\ call.ret = <<[msg |-> "INVALID_MAX_QUESTIONS", args |-> <<4>>]>>
        /\ temp_min_questions[u] = Some(4)
        /\ awaiting[u] = Some("max_questions")

\* C17: the settings get_user_settings returns for a user satisfy
\* 1 <= min questions-per-chunk <= max questions-per-chunk, and are 3 and 5
\* while nothing is stored for the user.
C17_MinMaxOrdered ==
    \A u \in Users :
        LET s == GetUserSettings(users, u)
        IN  /\ 1 <= s.min_questions_per_chunk
            /\ s.min_questions_per_chunk <= s.max_questions_per_chunk
            /\ u \notin DOMAIN users =>
                  /\ s.min_questions_per_chunk = 3
                  /\ s.max_questions_per_chunk = 5

\* The flow stored the pair min 1, max 1 for a user.
C17_Witness ==
    \E u \in Users :
        /\ call.op = "handle_text"
        /\ call.ret = <<[msg |-> "QUESTIONS_PER_CHUNK_SET", args |-> <<1, 1>>]>>
        /\ u \in DOMAIN users
        /\ users[u].min_questions_per_chunk = 1
        /\ users[u].max_questions_per_chunk = 1

NonBlank(l) == \E i \in 1..Len(l) : l[i] \notin Whitespace

\* The line, blanks around it aside, begins with a label A-D in either case
\* and goes on with at least one more character.
LabelThenText(l) ==
    LET s == Strip(l)
    IN  Len(s) >= 2 /\ s[1] \in {"A", "B", "C", "D", "a", "b", "c", "d"}

\* option is 'X) text' for the line l labelled X: text is what l ends with
\* after the label, blanks and at most one separator.
Normalized(option, X, l) ==
    LET s == Strip(l)
    IN  /\ Len(option) > 3
        /\ SubSeq(option, 1, 3) = <<X, ")", " ">>
        /\ \E n \in 2..Len(s) :
              /\ SubSeq(option, 4, Len(option)) = SubSeq(s, n, Len(s))
              /\ s[n] \notin Whitespace
              /\ \A i \in 2..(n - 1) : s[i] \in Whitespace \cup {")", "-", ".", ":"}
              /\ Cardinality({i \in 2..(n - 1) : s[i] \notin Whitespace}) <= 1

EditOptionsStep(u) ==
    /\ call'.op = "handle_text"
    /\ call'.args[1] = u
    /\ awaiting_quiz_count[u] = None
    /\ creating_custom_question[u] = None
    /\ awaiting[u] = None
    /\ awaiting_edit[u] = Some("options")
    /\ editing_question[u] # None

\* The step handles a text of user u at the options step of the creation flow.
CreateOptionsStep(u) ==
    /\ call'.op = "handle_text"
    /\ call'.args[1] = u
    /\ awaiting_quiz_count[u] = None
    /\ creating_custom_question[u] = Some(TRUE)
    /\ custom_question_step[u] = Some("options")

\* C20: a text that does not parse, typed at the options step of the edit flow
\* or of the creation flow, is refused and changes nothing: the step, the
\* fields collected so far, the session and the store stay as they are; a
\* text that parses at that step adds the options to the fields collected and
\* moves the flow to the answer step.
C20_ParseFailureKeepsStep ==
    [][\A u \in Users :
          (EditOptionsStep(u) \/ CreateOptionsStep(u)) =>
              LET options_list == ParseOptions(call'.args[2])
              IN  /\ UNCHANGED <<storeVars, sessionVars, current_mcq>>
                  /\ options_list = None =>
                        /\ call'.ret = <<[msg |-> "INVALID_OPTIONS_FORMAT",
                                          args |-> <<>>]>>
                        /\ UNCHANGED flowVars
                  /\ (options_list # None /\ EditOptionsStep(u)) =>
                        /\ editing_question'[u] =
                              Some([editing_question[u][1] EXCEPT
                                       !.new_options = options_list])
                        /\ awaiting_edit'[u] = None
                        /\ call'.ret = <<[msg |-> "EDIT_ANSWER_START", args |-> <<>>]>>
                  /\ (options_list # None /\ CreateOptionsStep(u)) =>
                        /\ custom_qn_data'[u] =
                              Some([Get(custom_qn_data[u], NoCustomData) EXCEPT
                                       !.options = options_list])
                        /\ custom_question_step'[u] = Some("answer")
                        /\ creating_custom_question'[u] = Some(TRUE)]_vars

\* A text that is no four option lines was refused at the options step of an
\* edit that had collected a new question text; the edit is still at that
\* step with the text it collected.
C20_Witness ==
    \E u \in Users :
        /\ call.op = "handle_text"
        /\ call.args = <<u, <<"1">> >>
        /\ call.ret = <<[msg |-> "INVALID_OPTIONS_FORMAT", args |-> <<>>]>>
        /\ creating_custom_question[u] = None
        /\ awaiting_edit[u] = Some("options")
        /\ editing_question[u] # None
        /\ editing_question[u][1].new_question # None

\* C6: a process_answer step leaves current_question and current_quiz as they
\* were, and raises the score by one when the label given equals the current
\* question's correct label and by nothing otherwise.
C6_ProcessAnswerFrame ==
    [][call'.op = "process_answer" =>
          LET u == call'.args[1]
              mcq == GetCurrentQuestion(current_quiz[u], current_question[u])
              match == mcq # None /\ call'.args[2] = mcq[1].correct_answer
          IN  /\ current_question'[u] = current_question[u]
              /\ current_quiz'[u] = current_quiz[u]
              /\ Get(score'[u], 0) = Get(score[u], 0) + (IF match THEN 1 ELSE 0)]_vars

C6_Witness ==
    /\ call.op = "process_answer"
    /\ call.ret # None
    /\ call.ret[1].is_correct
    /\ score[call.args[1]] = Some(1)
    /\ current_question[call.args[1]] = Some(0)

\* C7: a stored question on which n correct and m incorrect answers were
\* recorded since it was created or last edited has times_asked = n + m,
\* times_correct = n <= times_asked and accuracy = n / (n + m), 0 when n + m = 0.
C7_CountersMatchRecordings ==
    \A id \in DOMAIN question_bank :
        LET n == recorded[id][1]
            m == recorded[id][2]
            r == question_bank[id]
        IN  /\ r.times_asked = n + m
            /\ r.times_correct = n
            /\ r.times_correct <= r.times_asked
            /\ n + m = 0 => r.accuracy = Zero
            /\ n + m > 0 => SameRatio(r.accuracy, n, n + m)

C7_Witness ==
    /\ call.op = "update_question_stats"
    /\ call.args[2]
    /\ call.args[1] \in DOMAIN question_bank
    /\ recorded[call.args[1]] = <<1, 1>>

\* C8: when two concurrent update_question_stats calls on one question have
\* both finished, times_asked has grown by 2, times_correct by the number of
\* correct ones, and accuracy = times_correct / times_asked.
C8_NoLostUpdate ==
    (\A p \in Procs : txn.pc[p] = "done") =>
        LET r == question_bank[1]
            nc == Cardinality({p \in Procs : txn.is_correct[p]})
        IN  /\ r.times_asked = txn.before.times_asked + 2
            /\ r.times_correct = txn.before.times_correct + nc
            /\ SameRatio(r.accuracy, r.times_correct, r.times_asked)

C8_Witness ==
    /\ \A p \in Procs : txn.pc[p] = "done"
    /\ txn.overlapped
    /\ txn.is_correct[1] # txn.is_correct[2]

\* C9: after a successful update_question the question's times_asked,
\* times_correct and accuracy are 0, whatever they were and whatever fields
\* (none included) the edit supplied.
C9_EditResetsCounters ==
    (call.op = "update_question" /\ call.ret = TRUE) =>
        LET r == question_bank[call.args[1]]
        IN  r.times_asked = 0 /\ r.times_correct = 0 /\ r.accuracy = Zero

C9_Witness ==
    /\ call.op = "update_question"
    /\ call.ret = TRUE
    /\ call.args[3] = NoFields
    /\ call.pre[1] > 0

\* C10: in a session started on a snapshot of total questions, is_quiz_complete
\* is false after fewer than total next_question calls and true after exactly
\* total of them.
C10_CompleteAfterTotal ==
    \A u \in Users :
        current_quiz[u] # None =>
            LET total == Len(current_quiz[u][1])
                advances == Len(passed[u])
                complete == IsQuizComplete(current_quiz[u], current_question[u])
            IN  /\ advances < total => ~complete
                /\ advances = total => complete

C10_Witness ==
    /\ call.op = "next_question"
    /\ current_quiz[call.args[1]] # None
    /\ Len(current_quiz[call.args[1]][1]) = 2
    /\ Len(passed[call.args[1]]) = 2

\* The source label handle_custom_question_input saves a question under.
CustomSource == <<"C", "u", "s", "t", "o", "m", " ", "Q", "u", "e", "s", "t", "i", "o", "n">>

\* The bank holds a question user u authored in an earlier creation flow, so
\* the chat still shows that flow's answer keyboard.
AuthoredBefore(u) ==
    \E i \in DOMAIN question_bank :
        /\ question_bank[i].user_id = u
        /\ question_bank[i].source = CustomSource

\* The moves of custom_question_step a linear flow makes: on to the next
\* step, out of the flow after the explanation, or back to the first step
\* when the flow is opened again.
LinearMoves ==
    {<<Some("question"), Some("options")>>, <<Some("options"), Some("answer")>>,
     <<Some("answer"), Some("explanation")>>, <<Some("explanation"), None>>}
    \cup {<<s, Some("question")>>
          : s \in {None, Some("options"), Some("answer"), Some("explanation")}}

\* C21: while a creation flow is open, whatever text or button arrives, the
\* step moves only from question to options, from options to answer, from
\* answer to explanation and from explanation out of the flow, and a question
\* is saved only by the text of the explanation step, once, from the four
\* fields collected.
C21_StepsInOrder ==
    [][\A u \in Users :
          (creating_custom_question[u] = Some(TRUE) /\ AuthoredBefore(u)) =>
              /\ custom_question_step'[u] # custom_question_step[u] =>
                    <<custom_question_step[u], custom_question_step'[u]>> \in LinearMoves
              /\ question_bank' # question_bank =>
                    /\ custom_question_step[u] = Some("explanation")
                    /\ sqlite_sequence' = sqlite_sequence + 1
                    /\ custom_qn_data[u] # None
                    /\ custom_qn_data[u][1].question # None
                    /\ custom_qn_data[u][1].options # None
                    /\ custom_qn_data[u][1].correct_answer # None]_vars

\* The step handles button data pressed by user u while an edit is pending.
EditButtonStep(u, data) ==
    /\ call'.op = "button_callback"
    /\ call'.args = <<u, data>>
    /\ editing_question[u] # None

\* The step handles a text of user u at the explanation step of a pending
\* edit, which saves the edit.
EditExplanationStep(u) ==
    /\ call'.op = "handle_text"
    /\ call'.args[1] = u
    /\ awaiting_quiz_count[u] = None
    /\ creating_custom_question[u] = None
    /\ awaiting[u] = None
    /\ awaiting_edit[u] = Some("explanation")
    /\ editing_question[u] # None

\* The step ends a pending edit of user u by saving it or by deleting the
\* question.
EditCompleted(u) ==
    \/ EditButtonStep(u, <<"edit", "explanation", "no">>)
    \/ EditExplanationStep(u)
    \/ EditButtonStep(u, <<"edit", "delete", "confirm">>)

\* The step is user u pressing Cancel on the first edit prompt (the button
\* start_question_edit labels Cancel carries the data edit_question_no) or
\* on the delete confirmation.
EditCancelled(u) ==
    \/ EditButtonStep(u, <<"edit", "question", "no">>)
    \/ EditButtonStep(u, <<"edit", "delete", "cancel">>)

\* C22: after a step that completes a pending edit (save, or delete) or in
\* which the user presses Cancel at the first edit prompt or at the delete
\* confirmation, neither the question being edited nor the awaited step is
\* in the user's flow state.
C22_EditStateGone ==
    [][\A u \in Users :
          (EditCompleted(u) \/ EditCancelled(u)) =>
              /\ editing_question'[u] = None
              /\ awaiting_edit'[u] = None]_vars

\* The question id the pending edit of user u targets is no row of u's.
TargetMissing(u) ==
    LET id == editing_question[u][1].id
    IN  ~(id \in DOMAIN question_bank /\ question_bank[id].user_id = u)

\* The step reports msg as its first reply.
Reports(msg) == call'.ret # <<>> /\ call'.ret[1].msg = msg

\* C23: when a save (the No button of the explanation prompt, or the text of
\* the explanation step) or a confirmed delete targets a question id that is
\* no row of the calling user, update_question / delete_question return
\* false, the question bank is left as it was, the user is told that the
\* update or the delete failed, and the edit-flow state is cleared.
C23_MissingTargetFails ==
    [][\A u \in Users :
          LET id == editing_question[u][1].id
              saves == \/ EditButtonStep(u, <<"edit", "explanation", "no">>)
                       \/ EditExplanationStep(u)
              deletes == EditButtonStep(u, <<"edit", "delete", "confirm">>)
          IN  ((saves \/ deletes) /\ TargetMissing(u)) =>
                  /\ \A f \in EditInputs : ~UpdateQuestion(question_bank, id, u, f).ok
                  /\ ~DeleteQuestion(question_bank, id, u).ok
                  /\ question_bank' = question_bank
                  /\ saves => Reports("UPDATE_FAILED")
                  /\ deletes => Reports("DELETE_FAILED")
                  /\ editing_question'[u] = None
                  /\ awaiting_edit'[u] = None]_vars

\* A save was refused for a question the bank no longer holds: the bank was
\* cleared while the edit was pending, the failure was reported and the edit
\* is gone.
C23_Witness ==
    \E u \in Users :
        /\ call.op = "button_callback"
        /\ call.args = <<u, <<"edit", "explanation", "no">> >>
        /\ call.ret = <<[msg |-> "UPDATE_FAILED", args |-> <<>>]>>
        /\ GetQuestionCount(question_bank, u) = 0
        /\ editing_question[u] = None
        /\ awaiting_edit[u] = None

\* The step handles input of user u that belongs to the edit flow while what
\* it refers to is gone: the Edit button with no answered question
\* remembered and no current question, a button of the edit prompts with no
\* edit pending, or a text routed to an edit step with no edit pending.
StaleEditInput(u) ==
    \/ /\ call'.op = "button_callback"
       /\ call'.args = <<u, <<"edit", "question">> >>
       /\ current_mcq[u] = None
       /\ GetCurrentQuestion(current_quiz[u], current_question[u]) = None
    \/ /\ call'.op = "button_callback"
       /\ call'.args[1] = u
       /\ call'.args[2] # <<"edit", "question">>
       /\ call'.args[2][1] = "edit" \/ SubSeq(call'.args[2], 1, 2) = <<"set", "answer">>
       /\ editing_question[u] = None
    \/ /\ call'.op = "handle_text"
       /\ call'.args[1] = u
       /\ awaiting_quiz_count[u] = None
       /\ creating_custom_question[u] = None
       /\ awaiting[u] = None
       /\ awaiting_edit[u] # None
       /\ editing_question[u] = None

\* C24: input of the edit flow (the Edit button, a button of the edit
\* prompts, an edit text) that arrives when the state it refers to is gone
\* is answered with the 'expired' report and nothing else, leaves the tables
\* and the session as they were, and ends in no unhandled exception.
C24_StaleEditExpires ==
    [][\A u \in Users :
          StaleEditInput(u) =>
              /\ call'.ret = <<[msg |-> "EDIT_EXPIRED", args |-> <<>>]>>
              /\ UNCHANGED <<storeVars, sessionVars>>]_vars

RECURSIVE SumSeq(_)
SumSeq(s) == IF s = <<>> THEN 0 ELSE Head(s) + SumSeq(Tail(s))

\* The last call was process_and_generate_questions.
Ingested == call.op = "process_and_generate_questions"

\* The chunks the last call of process_and_generate_questions worked on.
IngestedChunks == NamedChunks(call.args[2], call.args[4])

\* C25: process_and_generate_questions calls the generator once for every
\* chunk, also for the chunks after one for which the generator failed and
\* returned nothing; it returns the sum of the numbers of questions the
\* generator returned, a failed chunk counting 0, and that many rows, no
\* more and no fewer, were added to the bank, whose earlier rows are as they
\* were.
C25_IngestCountsPersisted ==
    Ingested =>
        LET bank0 == call.pre[1]
            seq0 == call.pre[2]
        IN  /\ Len(call.ret.counts) = Len(IngestedChunks)
            /\ call.ret.total = SumSeq(call.ret.counts)
            /\ sqlite_sequence = seq0 + call.ret.total
            /\ DOMAIN question_bank = DOMAIN bank0 \cup (seq0 + 1)..sqlite_sequence
            /\ \A i \in DOMAIN bank0 : question_bank[i] = bank0[i]
            /\ \A i \in (seq0 + 1)..sqlite_sequence : question_bank[i].user_id = call.args[1]

\* The generator failed on the first of three chunks and returned a
\* question for each of the two after it: 2 was returned and two rows were
\* added.
C25_Witness ==
    /\ Ingested
    /\ Len(IngestedChunks) = 3
    /\ call.ret.counts = <<0, 1, 1>>
    /\ call.ret.total = 2
    /\ sqlite_sequence = call.pre[2] + 2

\* The words of chunks n.. of the sequence chunks, in order.
RECURSIVE WordsOf(_)
WordsOf(chunks) ==
    IF chunks = <<>> THEN <<>> ELSE Words(Head(chunks)) \o WordsOf(Tail(chunks))

\* chunks cuts the words of content into consecutive chunks of chunk_size
\* words: none is empty, only the last may be shorter, and the words of the
\* chunks one after the other are the words of content.
CutsIntoChunks(chunks, content, chunk_size) ==
    /\ \A n \in 1..Len(chunks) :
          /\ chunks[n] # <<>>
          /\ Len(Words(chunks[n])) \in 1..chunk_size
          /\ n < Len(chunks) => Len(Words(chunks[n])) = chunk_size
    /\ WordsOf(chunks) = Words(content)

\* The ids of the rows the last call of process_and_generate_questions
\* saved from its n-th chunk.
RowsOfChunk(n) ==
    LET before == call.pre[2] + SumSeq(SubSeq(call.ret.counts, 1, n - 1))
    IN  (before + 1)..(before + call.ret.counts[n])

\* The label '<source> - Chunk n'
ChunkLabel(source, n) ==
    source \o <<" ", "-", " ", "C", "h", "u", "n", "k", " ">> \o Str(n)

\* C26 as stated: the chunks cut the words of the content into consecutive
\* chunks of the chunk size, and every row saved from the n-th chunk has the
\* source '<source_label> - Chunk n', character for character.
C26_LabelVerbatim ==
    Ingested =>
        /\ CutsIntoChunks(ChunkText(call.args[2], call.args[4]), call.args[2],
                          call.args[4])
        /\ \A n \in 1..Len(call.ret.counts) : \A i \in RowsOfChunk(n) :
              question_bank[i].source = ChunkLabel(call.args[3], n)

\* C26: the chunks cut the words of the content into consecutive chunks of
\* the chunk size (none empty, only the last may be shorter, together the
\* words of the content in order), and every row saved from the n-th chunk
\* has as its source '<source_label> - Chunk n' as save_question cleans it:
\* ends stripped and every run of whitespace one space.  For a source label
\* that is already so, that is the label character for character.
C26_ChunksAndLabels ==
    Ingested =>
        /\ CutsIntoChunks(ChunkText(call.args[2], call.args[4]), call.args[2],
                          call.args[4])
        /\ \A n \in 1..Len(call.ret.counts) : \A i \in RowsOfChunk(n) :
              /\ question_bank[i].source = CleanText(ChunkLabel(call.args[3], n))
              /\ call.args[3] = CleanText(call.args[3]) =>
                    question_bank[i].source = ChunkLabel(call.args[3], n)

\* A content of three words was cut into a chunk of two and a chunk of one,
\* the generator returned a question for each, and the two rows carry the
\* labels of chunk 1 and chunk 2 of a file name with two spaces in a row,
\* stored with one.
C26_Witness ==
    /\ Ingested
    /\ call.args[4] = 2
    /\ Len(Words(call.args[2])) = 3
    /\ call.ret.counts = <<1, 1>>
    /\ call.args[3] = <<"n", " ", " ", "t">>
    /\ question_bank[sqlite_sequence - 1].source =
          <<"n", " ", "t", " ", "-", " ", "C", "h", "u", "n", "k", " ", "1">>
    /\ question_bank[sqlite_sequence].source =
          <<"n", " ", "t", " ", "-", " ", "C", "h", "u", "n", "k", " ", "2">>

\* The step starts a session of user u.
SessionStarts(u) ==
    /\ call'.args[1] = u
    /\ \E k \in 1..Len(call'.ret) : call'.ret[k].msg = "QUIZ_START"

\* The step adds rows to the bank (ingestion, custom creation), clears the
\* bank of user u, or records an answer of user u.
StoreWritten(u) ==
    \/ DOMAIN question_bank' \ DOMAIN question_bank # {}
    \/ call'.op = "button_callback"
          /\ call'.args = <<u, <<"confirm", "clear", "questions">> >>
    \/ Len(quiz_history') > Len(quiz_history)

\* C27: while a user has a session, a step that is neither the save or the
\* confirmed delete of that user's pending edit nor the start of a new
\* session leaves the snapshot as it is, or ends the session; and a step
\* that adds questions to the bank (ingestion, custom creation), clears the
\* bank or records an answer leaves the snapshot exactly as it is: the same
\* entries with the same contents in the same order.
C27_SnapshotFrame ==
    [][\A u \in Users :
          (current_quiz[u] # None /\ ~EditCompleted(u) /\ ~SessionStarts(u)) =>
              /\ current_quiz'[u] \in {current_quiz[u], None}
              /\ StoreWritten(u) => current_quiz'[u] = current_quiz[u]]_vars

\* A text was ingested during a session of two questions: the bank has a
\* third question, and the snapshot is the two questions the session started
\* with.
C27_Witness ==
    \E u \in Users :
        /\ call.op = "handle_text"
        /\ call.ret[Len(call.ret)] = [msg |-> "TEXT_QUESTIONS_COMPLETE", args |-> <<1>>]
        /\ call.pre[1] = current_quiz[u]
        /\ current_quiz[u] # None
        /\ Len(current_quiz[u][1]) = 2
        /\ DOMAIN question_bank = 1..3
        /\ \A j \in 1..2 : current_quiz[u][1][j].id \in 1..2

\* What the program holds for user v: v's rows of the bank with their
\* counters, v's settings, the answers recorded for v, and v's user_data
\* (session and flow state).
OfUser(v) ==
    [rows |-> [i \in {j \in DOMAIN question_bank : question_bank[j].user_id = v} |->
                 question_bank[i]],
     settings |-> IF v \in DOMAIN users THEN Some(users[v]) ELSE None,
     answers |-> SelectSeq(quiz_history, LAMBDA h : h.user_id = v),
     user_data |-> <<current_quiz[v], current_question[v], score[v], current_mcq[v],
                     editing_question[v], awaiting_edit[v], awaiting[v],
                     temp_min_questions[v], awaiting_quiz_count[v], upload_mode[v],
                     creating_custom_question[v], custom_question_step[v],
                     custom_qn_data[v]>>]

\* C28: a step that handles an update of user u (a button, a text, a
\* command) leaves what the program holds for every other user as it was:
\* their questions and counters, settings, recorded answers, session and
\* flow state.
C28_UsersIsolated ==
    [][\A u \in Owners, v \in Owners :
          (u # v /\ call'.op # "init" /\ call'.args[1] = u) =>
              OfUser(v)' = OfUser(v)]_vars

\* User 1 cleared the bank while user 2 was in a session with an answer
\* recorded: user 2's question, its counters and the session are still there.
C28_Witness ==
    /\ call.op = "button_callback"
    /\ call.args = <<1, <<"confirm", "clear", "questions">> >>
    /\ DOMAIN question_bank = {2}
    /\ question_bank[2].user_id = 2
    /\ question_bank[2].times_asked = 1
    /\ current_quiz[2] # None
    /\ score[2] # None

\* x <= y for fractions with positive denominators
Leq(x, y) == x[1] * y[2] <= y[1] * x[2]

\* C29: when get_random_questions is called, for any two stored questions
\* that have been asked, the one whose accuracy is lower or equal has a
\* weight greater or equal, each weight being 1.0 - accuracy + 0.2; and the
\* call changes no table: every stored field of every question is as it was.
C29_WeightMonotone ==
    [][call'.op = "get_random_questions" =>
          /\ \A i \in DOMAIN question_bank, j \in DOMAIN question_bank :
                (/\ question_bank[i].times_asked > 0
                 /\ question_bank[j].times_asked > 0
                 /\ Leq(question_bank[i].accuracy, question_bank[j].accuracy)) =>
                    Leq(Weight(question_bank[j]), Weight(question_bank[i]))
          /\ \A i \in DOMAIN question_bank :
                question_bank[i].times_asked > 0 =>
                    LET a == question_bank[i].accuracy
                        w == Weight(question_bank[i])
                    IN  w[1] * 5 * a[2] = (6 * a[2] - 5 * a[1]) * w[2]
          /\ UNCHANGED storeVars]_vars

\* The selector was called on a bank holding a question always answered
\* wrong and one always answered right: their weights are 6/5 and 1/5.
C29_Witness ==
    /\ call.op = "get_random_questions"
    /\ \E i \in DOMAIN question_bank, j \in DOMAIN question_bank :
          /\ question_bank[i].times_asked > 0
          /\ question_bank[j].times_asked > 0
          /\ question_bank[i].accuracy = <<0, 1>>
          /\ question_bank[j].accuracy = <<1, 1>>
          /\ Weight(question_bank[i]) = <<6, 5>>
          /\ Weight(question_bank[j]) = <<1, 5>>

\* C30: in every state with a session, get_quiz_progress returns the score
\* (the number of answers that matched since the session started), the
\* current index as answered, the snapshot's length as total and
\* score / answered * 100 as the percentage, 0 when answered is 0; the
\* percentage of get_quiz_summary is score / total * 100 in the same state.
C30_ProgressContract ==
    \A u \in Users :
        current_quiz[u] # None =>
            LET p == GetQuizProgress(Ctx(u))
                answered == current_question[u][1]
            IN  /\ Len(p) = 5
                /\ p[1] = score[u][1]
                /\ p[1] = matched[u]
                /\ p[2] = answered
                /\ p[3] = Len(current_quiz[u][1])
                /\ IF answered = 0 THEN p[4] = 0 /\ p[5] = 1
                   ELSE p[5] > 0 /\ p[4] * answered = 100 * p[1] * p[5]
                /\ IsSummary(GetQuizSummary(Ctx(u)), p[1], p[3])

\* One question of a two-question session answered right and advanced past:
\* progress is 1 of 1 answered, 100%, where the summary is 1 of 2, 50%.
C30_Witness ==
    \E u \in Users :
        /\ current_quiz[u] # None
        /\ Len(current_quiz[u][1]) = 2
        /\ current_question[u] = Some(1)
        /\ matched[u] = 1
        /\ GetQuizProgress(Ctx(u)) = <<1, 1, 2, 100, 1>>
        /\ GetQuizSummary(Ctx(u)) = <<1, 2, 50, 1>>

\* The 1-based position of the first snapshot entry with id q, 0 when none.
FirstPosition(quiz, q) ==
    LET hits == {i \in 1..Len(quiz) : quiz[i].id = q}
    IN  IF hits = {} THEN 0 ELSE CHOOSE i \in hits : \A j \in hits : i <= j

\* The step is a delete confirmation of user u, pressed during a session,
\* that deleted the question.
DeletedInSession(u) ==
    /\ call'.op = "button_callback"
    /\ call'.args = <<u, <<"edit", "delete", "confirm">>>>
    /\ current_quiz[u] # None
    /\ current_question[u] # None
    /\ editing_question[u] # None
    /\ \E k \in 1..Len(call'.ret) : call'.ret[k].msg = "QUESTION_DELETED"

\* C31: a delete confirmation that deletes question q during a session removes
\* q's row, and only it, from the store; the snapshot loses exactly its first
\* entry with q's id when it has one and is unchanged otherwise; the index is
\* one less exactly when that entry's position was <= the index and the index
\* was > 0, and unchanged otherwise.  The handler then presents the question
\* at the index, or, when the index has reached the snapshot's length, sends
\* the summary over the shortened snapshot and discards the session.
C31_DeleteEffect ==
    [][\A u \in Users :
          DeletedInSession(u) =>
              LET q == editing_question[u][1].id
                  quiz == current_quiz[u][1]
                  idx == current_question[u][1]
                  pos == FirstPosition(quiz, q)
                  newquiz == IF pos = 0 THEN quiz
                             ELSE SubSeq(quiz, 1, pos - 1)
                                  \o SubSeq(quiz, pos + 1, Len(quiz))
                  newidx == IF pos # 0 /\ pos - 1 <= idx /\ idx > 0
                            THEN idx - 1 ELSE idx
                  last == call'.ret[Len(call'.ret)]
              IN  /\ q \in DOMAIN question_bank
                  /\ DOMAIN question_bank' = DOMAIN question_bank \ {q}
                  /\ \A i \in DOMAIN question_bank' :
                        question_bank'[i] = question_bank[i]
                  /\ Len(newquiz) = Len(quiz) - (IF pos = 0 THEN 0 ELSE 1)
                  /\ IF newidx < Len(newquiz)
                     THEN /\ current_quiz'[u] = Some(newquiz)
                          /\ current_question'[u] = Some(newidx)
                          /\ last.msg = "QUESTION"
                          /\ last.args = <<newquiz[newidx + 1].id, newidx + 1,
                                           Len(newquiz)>>
                     ELSE /\ current_quiz'[u] = None
                          /\ last.msg = "QUIZ_COMPLETED"
                          /\ last.args[2] = Len(newquiz)]_vars

\* A delete confirmation removed the first entry of a two-question snapshot
\* while the index was 1: the index is 0 and the other question, now the only
\* entry, is presented.
C31_Witness ==
    /\ call.op = "button_callback"
    /\ call.args[2] = <<"edit", "delete", "confirm">>
    /\ call.pre[1] # None
    /\ Len(call.pre[1][1]) = 2
    /\ call.pre[2] = Some(1)
    /\ call.ret[1].msg = "QUESTION_DELETED"
    /\ current_quiz[call.args[1]] = Some(<<call.pre[1][1][2]>>)
    /\ current_question[call.args[1]] = Some(0)
    /\ call.pre[1][1][1].id \notin DOMAIN question_bank
    /\ call.ret[2] = [msg |-> "QUESTION", args |-> <<call.pre[1][1][2].id, 1, 1>>]

\* The step is handle_answer for user u with the label a, on a session that
\* has a current question.
AnswerStep(u, a) ==
    /\ call'.op = "button_callback"
    /\ call'.args = <<u, <<"answer", a>>>>
    /\ GetCurrentQuestion(current_quiz[u], current_question[u]) # None

\* C32: every answer given on a session that has a current question appends
\* exactly one quiz_history row (user, question id, given label, whether the
\* label is the question's correct answer) and adds exactly one to the
\* times_asked of that question's row, repeated attempts after Retry
\* included; times_correct grows, by one, only when the label matches.
C32_AnswerRecorded ==
    [][\A u \in Users, a \in Labels :
          AnswerStep(u, a) =>
              LET mcq == GetCurrentQuestion(current_quiz[u], current_question[u])[1]
              IN  /\ quiz_history' =
                        Append(quiz_history,
                               [user_id |-> u, question_id |-> mcq.id,
                                user_answer |-> a,
                                is_correct |-> (a = mcq.correct_answer)])
                  /\ mcq.id \in DOMAIN question_bank
                  /\ mcq.id \in DOMAIN question_bank'
                  /\ question_bank'[mcq.id].times_asked =
                        question_bank[mcq.id].times_asked + 1
                  /\ question_bank'[mcq.id].times_correct =
                        question_bank[mcq.id].times_correct
                        + (IF a = mcq.correct_answer THEN 1 ELSE 0)]_vars

\* A candidate that has the four keys, a list of exactly 4 options and a
\* correct answer that is one of A, B, C, D.
WellFormed(m) ==
    /\ m.kind = "dict"
    /\ m.question # None /\ m.explanation # None
    /\ m.options # None /\ m.options[1].list /\ Len(m.options[1].items) = 4
    /\ m.correct_answer # None
    /\ \E l \in {"A", "B", "C", "D"} : m.correct_answer[1] = <<l>>

\* The well-formed candidates of a list, in its order.
RECURSIVE WellFormedOf(_)
WellFormedOf(mcqs) ==
    IF mcqs = <<>> THEN <<>>
    ELSE (IF WellFormed(mcqs[1]) THEN <<mcqs[1]>> ELSE <<>>)
         \o WellFormedOf(Tail(mcqs))

\* A chunk was ingested with the model's answer call.args[2].
IngestedResponse ==
    call.op = "process_and_generate_questions" /\ Len(call.args) = 2

C34_IndexInRange ==
    \A u \in Users :
        current_quiz[u] # None =>
            /\ current_question[u] # None
            /\ 0 <= current_question[u][1]
            /\ current_question[u][1] <= Len(current_quiz[u][1])

\* The last question of a two-question session was answered right: the index
\* equals the snapshot's length and the session is still held.
C34_Witness ==
    \E u \in Users :
        /\ call.op = "button_callback"
        /\ call.args[2][1] = "answer"
        /\ current_quiz[u] # None
        /\ Len(current_quiz[u][1]) = 2
        /\ current_question[u] = Some(2)
        /\ call.pre[2] = Some(1)

\* C35: in every state with a session the score exceeds neither the index nor
\* the snapshot's length, and the percentages of get_quiz_summary and
\* get_quiz_progress are at most 100.
C35_ScoreBounded ==
    \A u \in Users :
        current_quiz[u] # None =>
            LET s == GetQuizSummary(Ctx(u))
                p == GetQuizProgress(Ctx(u))
            IN  /\ Get(score[u], 0) <= Get(current_question[u], 0)
                /\ Get(score[u], 0) <= Len(current_quiz[u][1])
                /\ s[3] <= 100 * s[4]
                /\ p[4] <= 100 * p[5]

\* C36: after a delete confirmation that deleted question q during a session,
\* the snapshot, if the session goes on, holds no entry with q's id, and the
\* question the handler presents next is not q.
C36_DeletedNotInSnapshot ==
    [][\A u \in Users :
          (DeletedInSession(u) /\ current_quiz'[u] # None) =>
              LET q == editing_question[u][1].id
              IN  /\ \A k \in 1..Len(current_quiz'[u][1]) :
                        current_quiz'[u][1][k].id # q
                  /\ \A k \in 1..Len(call'.ret) :
                        call'.ret[k].msg = "QUESTION" => call'.ret[k].args[1] # q]_vars

\* The step is an answer button or the show-solution button of user u,
\* pressed while get_current_question returns no question.
PressWithoutQuestion(u) ==
    /\ call'.op = "button_callback"
    /\ call'.args[1] = u
    /\ \/ call'.args[2][1] = "answer"
       \/ call'.args[2] = <<"show", "solution">>
    /\ Terminal(u)

\* C37: an answer or show-solution button pressed while the session has no
\* current question (ended, complete or never started) changes neither the
\* store nor the score nor the index, and ends in no unhandled exception.
C37_NoQuestionPressHandled ==
    [][\A u \in Users :
          PressWithoutQuestion(u) =>
              /\ UNCHANGED <<question_bank, quiz_history>>
              /\ score'[u] = score[u]
              /\ current_question'[u] = current_question[u]
              /\ \A k \in 1..Len(call'.ret) :
                    call'.ret[k].msg # "UNHANDLED_EXCEPTION"]_vars

\* C38: a start_quiz that fails (EMPTY_BANK_ERROR, INVALID_QUIZ_COUNT or
\* QUIZ_LOAD_ERROR) returns no questions and leaves the snapshot, the index
\* and the score of a session it finds, and the tables, as they were.
C38_FailedStartFrame ==
    [][(call'.op = "start_quiz" /\ ~call'.ret.success) =>
          /\ call'.ret.message \in {"EMPTY_BANK_ERROR", "INVALID_QUIZ_COUNT",
                                    "QUIZ_LOAD_ERROR"}
          /\ call'.ret.mcqs = <<>>
          /\ UNCHANGED <<storeVars, sessionVars>>]_vars

\* start_quiz failed with EMPTY_BANK_ERROR for a user whose session, one
\* question answered right, is still held as the call found it.
C38_Witness ==
    /\ call.op = "start_quiz"
    /\ ~call.ret.success
    /\ call.ret.message = "EMPTY_BANK_ERROR"
    /\ call.pre[2] # None
    /\ current_quiz[call.args[1]] = call.pre[2]
    /\ current_question[call.args[1]] = Some(1)
    /\ score[call.args[1]] = Some(1)
    /\ question_bank = <<>>

\* C39: in every state where the quiz-count prompt of user u is open, some
\* text (a count 0..MaxQuizBank+1, or a text that is no number) is handled so
\* that the prompt is closed afterwards.
C39_PromptClosable ==
    \A u \in Users :
        awaiting_quiz_count[u] # None =>
            \E text \in QuizTexts :
                \E c \in HandleText(Ctx(u), u, Username(u), text) :
                    c.awaiting_quiz_count = None

====
